---- MODULE Spec2Model ----
(***************************************************************************)
(* A model of the cooperative fiber runtime of src/lib/core/fiber.c: one   *)
(* cord (scheduler fiber, ready list, wake lists, fiber registry, event    *)
(* loop watchers) and the fibers it multiplexes, the Lua wrappers of       *)
(* src/lua/fiber.c that sleep and test for cancellation, and the thread of *)
(* a second cord that a fiber joins with cord_cojoin; and the trigger      *)
(* lists of src/lib/core/trigger.cc, as linked nodes with their callbacks; *)
(* and the threads of cord_start with their start mutex and condition.     *)
(*                                                                         *)
(* The second part models src/box/update: the functions that decode,       *)
(* apply, size and store update operations are operators on the call's     *)
(* arguments; a specification draws the arguments of one call from a       *)
(* bounded set and its one action makes the call.                          *)
(*                                                                         *)
(* The third part models the replica-set control of                        *)
(* src/box/replication.cc: the replicas, the applier counters, and the     *)
(* frames of replicaset_connect and replicaset_sync, which yield in their  *)
(* waits and in applier_stop.  The appliers (applier.cc) are its           *)
(* environment: an applier is its state, the UUID of its master, its       *)
(* on_state trigger list and its reader fiber, and its state changes are   *)
(* those the handlers of replication.cc expect.                            *)
(*                                                                         *)
(* Every function of the source is an operator from the state of the cord  *)
(* to the state it leaves; every action is the part of a handler that runs *)
(* between two context switches.  The build is the one with NDEBUG:        *)
(* assert() compiles to nothing.  What fiber_call, fiber_join and          *)
(* cord_cojoin require of their caller (no wakeup of its own pending, a    *)
(* free state link) is the guard of the action that calls them; in the one *)
(* specification SpecAny a fiber that has woken itself may call            *)
(* fiber_start.                                                            *)
(***************************************************************************)
EXTENDS Integers, Sequences, FiniteSets, TLC

(* ---------------------------------------------------------------- bounds *)

\* Number of fiber objects the cord's mempool can hand out.
MaxFibers == 3

\* Number of fiber_new calls in one behaviour.
MaxNew == 3

\* Number of fibers on cord->alive at one time in the general specification.
MaxAlive == 2

\* Width in bits of cord->max_fid in the model (uint32_t in the source).
FidWidth == 8

\* Number of struct trigger objects.
MaxTriggers == 3

\* Number of cord_start calls in one behaviour.
MaxCords == 2

\* Width in bits of a MessagePack integer in the model (64 in the source);
\* the wide accumulator has one and a half times that width (96).
IntWidth == 4

\* Number of digits a decimal holds in the model (38 in the source).
DecimalDigits == 2

\* Significant bits of a float in the model (24 in the source).
FloatMantissa == 3

\* Width in bits of an int32_t in the model.
Int32Width == 4

\* Width in bits of the column mask in the model (64 in the source).
MaskWidth == 6

\* Number of operations in one update in the model.
MaxOps == 2

\* Number of struct applier objects, and of appliers in one configuration.
MaxAppliers == 4

MaxCount == 2

\* Number of struct replica objects.
MaxReplicas == 6

\* Number of instance UUIDs.
MaxUuid == 2

\* Number of replicaset_connect calls in one behaviour.
MaxConnects == 2

\* Number of state changes of appliers in one behaviour.
MaxEvents == 4

(* ------------------------------------------------------------- constants *)

FIBER_ID_SCHED == 1

FIBER_ID_MAX_RESERVED == 100

FidModulus == 2 ^ FidWidth

sched == 0

Fibers == 1..MaxFibers

AllFibers == {sched} \cup Fibers

\* A null fiber pointer.
NoFiber == -1

FIBER_IS_CANCELLABLE == "CANCELLABLE"

FIBER_IS_CANCELLED == "CANCELLED"

FIBER_IS_READY == "READY"

FIBER_IS_DEAD == "DEAD"

FIBER_IS_JOINABLE == "JOINABLE"

FIBER_CUSTOM_STACK == "CUSTOM_STACK"

FIBER_DEFAULT_FLAGS == {FIBER_IS_CANCELLABLE}

(* ----------------------------------------------------------------- state *)

VARIABLES
    cur,          \* cord->fiber: the fiber that has control
    flags,        \* fiber->flags
    fid,          \* fiber->fid, 0 for a pooled or unallocated object
    pc,           \* where each fiber's coroutine is parked
    caller,       \* fiber->caller
    ready,        \* cord->ready, linked through fiber->state
    wake,         \* fiber->wake, linked through the waiters' fiber->state
    f_ret,        \* fiber->f_ret
    diag,         \* fiber->diag: "none", "err" or "cancelled"
    max_fid,      \* cord->max_fid
    registry,     \* cord->fiber_registry: fid -> fiber
    alive,        \* cord->alive
    dead,         \* cord->dead, the pool
    wakeup_event, \* cord->wakeup_event has been fed and not yet invoked
    timer,        \* the ev_timer of a fiber inside fiber_yield_timeout is active
    timed_out,    \* fiber_watcher_data.timed_out of that call
    idle_event,   \* cord->idle_event is active
    delay0,       \* the fiber is inside fiber_sleep(0)
    join_arg,     \* the argument of the fiber_join call a fiber is inside
    join_ret,     \* the value the last fiber_join that returned has returned
    n_new,        \* number of fiber_new calls so far
    pending,      \* history: fibers with an outstanding wakeup, in wakeup order
    chain,        \* history: the part of the dispatched list that has not run yet
    noop_wakeup,  \* history: the READY or DEAD fiber the last step has woken
    on_exit,      \* cord->on_exit of the cord that is joined with cord_cojoin
    thread,       \* that cord's thread: its position in cord_thread_func, the
                  \* local "changed", the number of calls of the exit handler
    ctx,          \* the struct cord_cojoin_ctx and the locals of cord_cojoin
    panicked,     \* panic("Wrong fiber woken") has been called
    stack,        \* fiber->stack and fiber->gc: "none" before fiber_stack_create,
                  \* "default" or "custom" while held, "freed" once destroyed
    yt_ret,       \* the value the last fiber_yield_timeout has returned
    started_by,   \* history: the fiber whose noted fiber_start has started it
    first_run,    \* history: it has not yielded since that fiber_start
    trg,          \* a trigger list, its callbacks, and the last run over it
    cs,           \* the cord_start calls of one thread and the threads they
                  \* create: struct cord_thread_arg, cord->loop, positions
    upd,          \* one call into box/update: its arguments, and once it has
                  \* returned, what it has produced
    rs            \* the replica set of replication.cc, its appliers, and the
                  \* frames of replicaset_connect and replicaset_sync

vars == <<cur, flags, fid, pc, caller, ready, wake, f_ret, diag, max_fid,
          registry, alive, dead, wakeup_event, timer, timed_out, idle_event,
          delay0, join_arg, join_ret, n_new, pending, chain, noop_wakeup,
          on_exit, thread, ctx, panicked, stack, yt_ret, started_by,
          first_run, trg, cs, upd, rs>>

\* The cord as one value, so that the functions of fiber.c compose.
St == [cur |-> cur, flags |-> flags, fid |-> fid, pc |-> pc, caller |-> caller,
       ready |-> ready, wake |-> wake, f_ret |-> f_ret, diag |-> diag,
       max_fid |-> max_fid, registry |-> registry, alive |-> alive,
       dead |-> dead, wakeup_event |-> wakeup_event, timer |-> timer,
       timed_out |-> timed_out, idle_event |-> idle_event, delay0 |-> delay0,
       join_arg |-> join_arg, join_ret |-> join_ret,
       n_new |-> n_new, pending |-> pending, chain |-> chain,
       noop_wakeup |-> NoFiber, on_exit |-> on_exit, thread |-> thread,
       ctx |-> ctx, panicked |-> panicked, stack |-> stack,
       yt_ret |-> yt_ret, started_by |-> started_by, first_run |-> first_run,
       trg |-> trg, cs |-> cs, upd |-> upd, rs |-> rs]

\* The state after a handler is the value it computes.
Commit(s) ==
    \E t \in {s} :
        /\ cur' = t.cur
        /\ flags' = t.flags
        /\ fid' = t.fid
        /\ pc' = t.pc
        /\ caller' = t.caller
        /\ ready' = t.ready
        /\ wake' = t.wake
        /\ f_ret' = t.f_ret
        /\ diag' = t.diag
        /\ max_fid' = t.max_fid
        /\ registry' = t.registry
        /\ alive' = t.alive
        /\ dead' = t.dead
        /\ wakeup_event' = t.wakeup_event
        /\ timer' = t.timer
        /\ timed_out' = t.timed_out
        /\ idle_event' = t.idle_event
        /\ delay0' = t.delay0
        /\ join_arg' = t.join_arg
        /\ join_ret' = t.join_ret
        /\ n_new' = t.n_new
        /\ pending' = t.pending
        /\ chain' = t.chain
        /\ noop_wakeup' = t.noop_wakeup
        /\ on_exit' = t.on_exit
        /\ thread' = t.thread
        /\ ctx' = t.ctx
        /\ panicked' = t.panicked
        /\ stack' = t.stack
        /\ yt_ret' = t.yt_ret
        /\ started_by' = t.started_by
        /\ first_run' = t.first_run
        /\ trg' = t.trg
        /\ cs' = t.cs
        /\ upd' = t.upd
        /\ rs' = t.rs

(* --------------------------------------------------------------- helpers *)

Range(q) == {q[i] : i \in 1..Len(q)}

\* rlist_del of one entry: the list without it.
Remove(q, x) == SelectSeq(q, LAMBDA y : y /= x)

\* fiber->state is linked in some list.
state_linked(s, f) ==
    \/ f \in Range(s.ready)
    \/ \E g \in Fibers : f \in Range(s.wake[g])

fiber_is_dead(s, f) == FIBER_IS_DEAD \in s.flags[f]

(* ------------------------------------------------------------ fiber.c    *)

\* fiber_wakeup with the fiber added at the head of cord->ready.
fiber_wakeup_head(s, f) ==
    IF s.flags[f] \cap {FIBER_IS_READY, FIBER_IS_DEAD} /= {}
    THEN s
    ELSE [s EXCEPT
            !.wakeup_event = IF s.ready = <<>> THEN TRUE ELSE @,
            !.wake = [g \in Fibers |-> Remove(s.wake[g], f)],
            !.ready = <<f>> \o Remove(s.ready, f),
            !.flags[f] = @ \cup {FIBER_IS_READY},
            !.pending = Append(@, f)]

\* fiber_wakeup that returns only on a DEAD fiber and moves a READY one.
fiber_wakeup_again(s, f) ==
    IF FIBER_IS_DEAD \in s.flags[f]
    THEN s
    ELSE [s EXCEPT
            !.wakeup_event = IF s.ready = <<>> THEN TRUE ELSE @,
            !.wake = [g \in Fibers |-> Remove(s.wake[g], f)],
            !.ready = Append(Remove(s.ready, f), f),
            !.flags[f] = @ \cup {FIBER_IS_READY},
            !.pending = Append(Remove(@, f), f)]

\* fiber_wakeup that feeds the wakeup event only if the ready list holds a
\* fiber already.
fiber_wakeup_late(s, f) ==
    IF s.flags[f] \cap {FIBER_IS_READY, FIBER_IS_DEAD} /= {}
    THEN s
    ELSE [s EXCEPT
            !.wakeup_event = IF s.ready /= <<>> THEN TRUE ELSE @,
            !.wake = [g \in Fibers |-> Remove(s.wake[g], f)],
            !.ready = Append(Remove(s.ready, f), f),
            !.flags[f] = @ \cup {FIBER_IS_READY},
            !.pending = Append(@, f)]

\* fiber_wakeup(f)
fiber_wakeup(s, f) ==
    IF s.flags[f] \cap {FIBER_IS_READY, FIBER_IS_DEAD} /= {}
    THEN s
    ELSE [s EXCEPT
            !.wakeup_event = IF s.ready = <<>> THEN TRUE ELSE @,
            !.wake = [g \in Fibers |-> Remove(s.wake[g], f)],
            !.ready = Append(Remove(s.ready, f), f),
            !.flags[f] = @ \cup {FIBER_IS_READY},
            !.pending = Append(@, f)]

\* The coro_transfer at the end of fiber_call_impl and fiber_yield: the callee
\* continues from where it is parked; a fiber that never ran enters its body.
coro_transfer(s, callee) ==
    [s EXCEPT
        !.cur = callee,
        !.pc[callee] = IF @ = "new" THEN "run" ELSE @,
        !.pending = Remove(@, callee),
        !.chain = Remove(@, callee)]

\* fiber_call_impl that leaves the READY flag of the callee set.
fiber_call_impl_keep(s, callee) == coro_transfer(s, callee)

\* fiber_call_impl(callee)
fiber_call_impl(s, callee) ==
    coro_transfer([s EXCEPT !.flags[callee] = @ \ {FIBER_IS_READY}], callee)

\* fiber_call(callee), the body of fiber_start
fiber_call(s, callee) ==
    fiber_call_impl(
        [s EXCEPT !.caller[callee] = s.cur,
                  !.flags[callee] = @ \cup {FIBER_IS_READY},
                  !.flags[s.cur] = @ \cup {FIBER_IS_READY}],
        callee)

\* fiber_yield that always gives control to the scheduler.
fiber_yield_sched(s) ==
    coro_transfer([s EXCEPT !.caller[s.cur] = sched,
                            !.first_run[s.cur] = FALSE], sched)

\* fiber_yield that leaves fiber->caller as it is.
fiber_yield_keep(s) ==
    LET callee == s.caller[s.cur] IN
    coro_transfer(
        [s EXCEPT !.flags[callee] = @ \ {FIBER_IS_READY},
                  !.first_run[s.cur] = FALSE],
        callee)

\* fiber_yield()
fiber_yield(s) ==
    LET callee == s.caller[s.cur] IN
    coro_transfer(
        [s EXCEPT !.caller[s.cur] = sched,
                  !.flags[callee] = @ \ {FIBER_IS_READY},
                  !.first_run[s.cur] = FALSE],
        callee)

\* The loop of fiber_schedule_list: each fiber's caller is the next one of the
\* list, the last one's caller is the scheduler.
link_callers(s, list) ==
    [s EXCEPT !.caller =
        [f \in AllFibers |->
            IF \E i \in 1..Len(list) : list[i] = f
            THEN LET i == CHOOSE i \in 1..Len(list) : list[i] = f
                 IN  IF i < Len(list) THEN list[i + 1] ELSE s.cur
            ELSE s.caller[f]]]

\* fiber_schedule_list that enters the first fiber with fiber_call.
fiber_schedule_list_call(s) ==
    IF s.ready = <<>>
    THEN s
    ELSE fiber_call(
            [link_callers(s, s.ready) EXCEPT !.ready = <<>>,
                                             !.chain = s.ready],
            Head(s.ready))

\* fiber_schedule_list(&cord->ready)
fiber_schedule_list(s) ==
    IF s.ready = <<>>
    THEN s
    ELSE fiber_call_impl(
            [link_callers(s, s.ready) EXCEPT !.ready = <<>>,
                                             !.chain = s.ready],
            Head(s.ready))

\* fiber_schedule_wakeup, invoked by the loop for the fed wakeup_event
fiber_schedule_wakeup(s) ==
    fiber_schedule_list([s EXCEPT !.wakeup_event = FALSE])

\* unregister_fid(fiber)
unregister_fid(s, f) ==
    [s EXCEPT !.registry =
        [k \in DOMAIN s.registry \ {s.fid[f]} |-> s.registry[k]]]

\* register_fid(fiber)
register_fid(s, f) ==
    [s EXCEPT !.registry = (s.fid[f] :> f) @@ s.registry]

\* fiber_find(fid): the fiber the registry of the cord holds under the fid,
\* or NULL.
fiber_find(s, id) ==
    IF id \in DOMAIN s.registry THEN s.registry[id] ELSE NoFiber

\* lbox_fiber_status: the status of the fiber whose fid the userdata holds,
\* or of the calling fiber if there is no argument.
lbox_fiber_status(s, has_arg, id) ==
    LET f == IF has_arg THEN fiber_find(s, id) ELSE s.cur IN
    IF f = NoFiber \/ s.fid[f] = 0 THEN "dead"
    ELSE IF f = s.cur THEN "running"
    ELSE "suspended"

\* fiber_destroy(cord, f): nothing is done for the running fiber; any other
\* fiber is unlinked from the list it is in, and its stack and region released.
fiber_destroy(s, f) ==
    IF f = s.cur
    THEN s
    ELSE [s EXCEPT !.ready = Remove(@, f),
                   !.wake = [g \in Fibers |-> Remove(s.wake[g], f)],
                   !.alive = @ \ {f},
                   !.dead = Remove(@, f),
                   !.stack[f] = "freed"]

\* fiber_recycle(fiber): a default-stack fiber goes to the pool, a
\* custom-stack fiber to fiber_destroy.
fiber_recycle(s, f) ==
    LET has_custom_stack == FIBER_CUSTOM_STACK \in s.flags[f]
        u == unregister_fid([s EXCEPT !.flags[f] = FIBER_DEFAULT_FLAGS], f)
        r == [u EXCEPT !.fid[f] = 0]
    IN  IF ~has_custom_stack
        THEN [r EXCEPT !.alive = @ \ {f},
                       !.dead = <<f>> \o @]
        ELSE fiber_destroy(r, f)

\* fiber_new_ex(name, fiber_attr, f), with an attribute that asks for a custom
\* stack size or with one that does not.
fiber_new_ex(s, custom) ==
    LET fresh == custom \/ s.dead = <<>>
        f == IF fresh
             THEN CHOOSE g \in Fibers :
                    /\ s.pc[g] = "none"
                    /\ \A h \in Fibers : s.pc[h] = "none" => g <= h
             ELSE Head(s.dead)
        a == IF fresh
             THEN [s EXCEPT !.flags[f] =
                                IF custom
                                THEN FIBER_DEFAULT_FLAGS \cup {FIBER_CUSTOM_STACK}
                                ELSE FIBER_DEFAULT_FLAGS,
                            !.stack[f] = IF custom THEN "custom" ELSE "default",
                            !.caller[f] = NoFiber,
                            !.alive = @ \cup {f}]
             ELSE [s EXCEPT !.dead = Tail(@), !.alive = @ \cup {f}]
        inc == (s.max_fid + 1) % FidModulus
        next == IF inc < FIBER_ID_MAX_RESERVED
                THEN FIBER_ID_MAX_RESERVED + 1 ELSE inc
    IN  register_fid([a EXCEPT !.pc[f] = "new",
                               !.max_fid = next,
                               !.fid[f] = next,
                               !.n_new = @ + 1], f)

\* fiber_new(name, f)
fiber_new(s) == fiber_new_ex(s, FALSE)

\* fiber_cancel that sets the flag and wakes nobody.
fiber_cancel_quiet(s, f) ==
    IF fiber_is_dead(s, f)
    THEN s
    ELSE [s EXCEPT !.flags[f] = @ \cup {FIBER_IS_CANCELLED}]

\* fiber_cancel that wakes the fiber whether or not it is cancellable.
fiber_cancel_always(s, f) ==
    IF fiber_is_dead(s, f)
    THEN s
    ELSE LET c == [s EXCEPT !.flags[f] = @ \cup {FIBER_IS_CANCELLED}] IN
         IF f /= s.cur THEN fiber_wakeup(c, f) ELSE c

\* fiber_cancel(f)
fiber_cancel(s, f) ==
    IF fiber_is_dead(s, f)
    THEN s
    ELSE LET c == [s EXCEPT !.flags[f] = @ \cup {FIBER_IS_CANCELLED}] IN
         IF f /= s.cur /\ FIBER_IS_CANCELLABLE \in c.flags[f]
         THEN fiber_wakeup(c, f)
         ELSE c

\* fiber_set_cancellable(yesno)
fiber_set_cancellable(s, yesno) ==
    [s EXCEPT !.flags[s.cur] =
        IF yesno THEN @ \cup {FIBER_IS_CANCELLABLE}
                 ELSE @ \ {FIBER_IS_CANCELLABLE}]

\* fiber_set_joinable(fiber, yesno)
fiber_set_joinable(s, f, yesno) ==
    [s EXCEPT !.flags[f] =
        IF yesno THEN @ \cup {FIBER_IS_JOINABLE}
                 ELSE @ \ {FIBER_IS_JOINABLE}]

\* The loop of fiber_loop over fiber->wake: shift the first waiter, wake it.
RECURSIVE wake_waiters(_, _)
wake_waiters(s, f) ==
    IF s.wake[f] = <<>>
    THEN s
    ELSE LET w == Head(s.wake[f]) IN
         wake_waiters(fiber_wakeup([s EXCEPT !.wake[f] = Tail(@)], w), f)

\* fiber_loop that leaves the dying fiber in the list it is linked in.
reset_pending_wakeup_none(s, f) == s

\* The reset of pending wakeups in fiber_loop: rlist_del(&fiber->state).
reset_pending_wakeup(s, f) ==
    [s EXCEPT !.ready = Remove(@, f),
              !.wake = [g \in Fibers |-> Remove(s.wake[g], f)],
              !.pending = Remove(@, f)]

\* fiber_loop that recycles the fiber whether or not it is joinable.
fiber_loop_recycle(s, ret) ==
    LET self == s.cur
        r == [s EXCEPT !.f_ret[self] = ret,
                       !.diag[self] =
                           IF ret /= 0 /\ FIBER_IS_JOINABLE \in s.flags[self]
                           THEN (IF @ = "none" THEN "err" ELSE @)
                           ELSE "none"]
        d == [r EXCEPT !.flags[self] = @ \cup {FIBER_IS_DEAD}]
        w == reset_pending_wakeup(wake_waiters(d, self), self)
    IN  fiber_yield([fiber_recycle(w, self) EXCEPT !.pc[self] = "dead"])

\* fiber_loop from the return of fiber_invoke with the value ret to the
\* fiber_yield that parks the dead fiber.  A body that returns an error has set
\* the diagnostics.
fiber_loop(s, ret) ==
    LET self == s.cur
        r == [s EXCEPT !.f_ret[self] = ret,
                       !.diag[self] =
                           IF ret /= 0 /\ FIBER_IS_JOINABLE \in s.flags[self]
                           THEN (IF @ = "none" THEN "err" ELSE @)
                           ELSE "none"]
        d == [r EXCEPT !.flags[self] = @ \cup {FIBER_IS_DEAD}]
        w == reset_pending_wakeup(wake_waiters(d, self), self)
        c == IF FIBER_IS_JOINABLE \in w.flags[self]
             THEN w ELSE fiber_recycle(w, self)
    IN  fiber_yield([c EXCEPT !.pc[self] = "dead"])

\* fiber_join that waits with one fiber_yield, without the loop.
fiber_join_once(s, f) ==
    LET self == s.cur IN
    IF fiber_is_dead(s, f) \/ s.pc[self] = "join"
    THEN LET ret == s.f_ret[f]
             m == IF ret /= 0
                  THEN [s EXCEPT !.diag[self] = s.diag[f], !.diag[f] = "none"]
                  ELSE s
         IN  [fiber_recycle(m, f) EXCEPT
                 !.join_ret = ret,
                 !.join_arg[self] = NoFiber,
                 !.pc[self] = IF self = sched THEN @ ELSE "run"]
    ELSE fiber_yield([s EXCEPT !.wake[f] = Append(@, self),
                               !.join_arg[self] = f,
                               !.pc[self] = "join"])

\* fiber_join(fiber) from its entry, or from the return of its fiber_yield, to
\* its next fiber_yield or to its return.
fiber_join(s, f) ==
    LET self == s.cur IN
    IF fiber_is_dead(s, f)
    THEN LET ret == s.f_ret[f]
             m == IF ret /= 0
                  THEN [s EXCEPT !.diag[self] = s.diag[f], !.diag[f] = "none"]
                  ELSE s
         IN  [fiber_recycle(m, f) EXCEPT
                 !.join_ret = ret,
                 !.join_arg[self] = NoFiber,
                 !.pc[self] = IF self = sched THEN @ ELSE "run"]
    ELSE fiber_yield([s EXCEPT !.wake[f] = Append(@, self),
                               !.join_arg[self] = f,
                               !.pc[self] = "join"])

\* fiber_schedule_timeout, the callback of the one-shot timer
fiber_schedule_timeout(s, f) ==
    fiber_wakeup([s EXCEPT !.timed_out[f] = TRUE, !.timer[f] = FALSE], f)

\* fiber_yield_timeout(delay) up to its fiber_yield: the timer is started with
\* the watcher data on the stack of the fiber.
fiber_yield_timeout(s) ==
    LET self == s.cur IN
    fiber_yield([s EXCEPT !.timer[self] = TRUE,
                          !.timed_out[self] = FALSE,
                          !.pc[self] = "ytimeout"])

\* fiber_yield_timeout that returns without ev_timer_stop.
fiber_yield_timeout_running(s) ==
    LET self == s.cur IN
    [s EXCEPT !.yt_ret = s.timed_out[self],
              !.timed_out[self] = FALSE,
              !.pc[self] = "run"]

\* fiber_yield_timeout(delay) from the return of its fiber_yield: the timer is
\* stopped and the flag of the watcher data returned.
fiber_yield_timeout_return(s) ==
    LET self == s.cur IN
    [s EXCEPT !.timer[self] = FALSE,
              !.yt_ret = s.timed_out[self],
              !.timed_out[self] = FALSE,
              !.pc[self] = "run"]

\* fiber_sleep(delay) up to the fiber_yield of fiber_yield_timeout
fiber_sleep(s, zero) ==
    LET self == s.cur IN
    fiber_yield([s EXCEPT !.idle_event = IF zero THEN TRUE ELSE @,
                          !.delay0[self] = zero,
                          !.timer[self] = TRUE,
                          !.timed_out[self] = FALSE,
                          !.pc[self] = "sleep"])

\* fiber_sleep(delay) from the return of that fiber_yield
fiber_sleep_return(s) ==
    LET self == s.cur IN
    [s EXCEPT !.timer[self] = FALSE,
              !.timed_out[self] = FALSE,
              !.idle_event = IF s.delay0[self] THEN FALSE ELSE @,
              !.delay0[self] = FALSE,
              !.pc[self] = "run"]

\* luaL_testcancel: a cancelled fiber's body stops with FiberIsCancelled, which
\* ends the body with a non-zero return code.
luaL_testcancel(s) ==
    IF FIBER_IS_CANCELLED \in s.flags[s.cur]
    THEN fiber_loop([s EXCEPT !.diag[s.cur] = "cancelled"], -1)
    ELSE s

\* lbox_fiber_wakeup: a fiber that is not cancellable is left alone.
lbox_fiber_wakeup(s, f) ==
    IF FIBER_IS_CANCELLABLE \in s.flags[f]
    THEN fiber_wakeup(s, f)
    ELSE s

\* lbox_fiber_sleep from the return of fiber_yield_timeout: the rest of
\* fiber_sleep, then luaL_testcancel on the state it leaves.
lbox_fiber_sleep_return(s) ==
    CHOOSE r \in {luaL_testcancel(a) : a \in {fiber_sleep_return(s)}} : TRUE

(* ------------------------------------------------- fiber.c, cord_cojoin *)

\* The compare-and-swap of cord_cojoin done as a plain store.
cord_cojoin_store(s) ==
    [s EXCEPT !.ctx = [fiber |-> s.cur, task_complete |-> FALSE,
                       async_started |-> TRUE, async_pending |-> FALSE,
                       changed |-> "yes", cancellable |-> FALSE,
                       yielded |-> FALSE, joined |-> FALSE],
              !.on_exit = "handler",
              !.pc[s.cur] = "cojoin"]

\* cord_cojoin(cord) up to the compare-and-swap of cord->on_exit: the context
\* is set up, the async watcher started, the handler installed if the field
\* holds NULL.
cord_cojoin_cas(s) ==
    LET won == s.on_exit = "NULL" IN
    [s EXCEPT !.ctx = [fiber |-> s.cur, task_complete |-> FALSE,
                       async_started |-> TRUE, async_pending |-> FALSE,
                       changed |-> IF won THEN "yes" ELSE "no",
                       cancellable |-> FALSE,
                       yielded |-> FALSE, joined |-> FALSE],
              !.on_exit = IF won THEN "handler" ELSE @,
              !.pc[s.cur] = "cojoin"]

\* cord_cojoin that yields without fiber_set_cancellable(false).
cord_cojoin_wait_cancellable(s) ==
    LET self == s.cur IN
    IF s.ctx.changed = "yes"
    THEN fiber_yield(
            [s EXCEPT
                !.ctx.cancellable = FIBER_IS_CANCELLABLE \in s.flags[self],
                !.ctx.yielded = TRUE,
                !.pc[self] = "cojoin_wait"])
    ELSE [s EXCEPT !.ctx.async_started = FALSE,
                   !.pc[self] = "cord_join"]

\* cord_cojoin from the test of "changed": the joiner that installed the
\* handler becomes non-cancellable and yields; the other one stops the
\* watcher and goes on to cord_join.
cord_cojoin_wait(s) ==
    LET self == s.cur IN
    IF s.ctx.changed = "yes"
    THEN fiber_yield(
            [fiber_set_cancellable(s, FALSE) EXCEPT
                !.ctx.cancellable = FIBER_IS_CANCELLABLE \in s.flags[self],
                !.ctx.yielded = TRUE,
                !.pc[self] = "cojoin_wait"])
    ELSE [s EXCEPT !.ctx.async_started = FALSE,
                   !.pc[self] = "cord_join"]

\* cord_cojoin from the return of its fiber_yield to the call of cord_join.
cord_cojoin_resume(s) ==
    LET self == s.cur IN
    IF ~s.ctx.task_complete
    THEN [s EXCEPT !.panicked = TRUE, !.pc[self] = "panic"]
    ELSE [fiber_set_cancellable(s, s.ctx.cancellable) EXCEPT
             !.ctx.async_started = FALSE,
             !.pc[self] = "cord_join"]

\* cord_join(cord): tt_pthread_join has returned.
cord_join(s) ==
    [s EXCEPT !.ctx.joined = TRUE, !.pc[s.cur] = "run"]

\* An exit handler that does not signal the joiner's loop.
cord_cojoin_on_exit_none(s) == s

\* cord_cojoin_on_exit(arg): ev_async_send to the joiner's loop.
cord_cojoin_on_exit(s) ==
    [s EXCEPT !.ctx.async_pending = TRUE]

\* cord_cojoin_wakeup, the callback of the async watcher
cord_cojoin_wakeup(s) ==
    fiber_wakeup([s EXCEPT !.ctx.task_complete = TRUE,
                           !.ctx.async_pending = FALSE],
                 s.ctx.fiber)

\* cord_thread_func: the compare-and-swap after the return of f(arg); the
\* thread that stores CORD_ON_EXIT_WONT_RUN returns.
cord_thread_cas(s) ==
    IF s.on_exit = "NULL"
    THEN [s EXCEPT !.on_exit = "WONT_RUN",
                   !.thread.changed = "yes",
                   !.thread.pc = "done"]
    ELSE [s EXCEPT !.thread.changed = "no",
                   !.thread.pc = "call"]

\* cord_thread_func: handler->callback(handler->argument), then the return.
cord_thread_call(s) ==
    [cord_cojoin_on_exit(s) EXCEPT !.thread.handler_calls = @ + 1,
                                   !.thread.pc = "done"]

(* ------------------------------------------------------------ trigger.cc *)

Triggers == 1..MaxTriggers

\* The struct rlist a trigger list hangs on: the head of the circular list.
ListHead == 0

\* The triggers of the list, from list->next on, in forward order.
RECURSIVE rlist_entries(_, _, _)
rlist_entries(t, item, n) ==
    IF item = ListHead \/ n = 0
    THEN <<>>
    ELSE <<item>> \o rlist_entries(t, t.next[item], n - 1)

\* rlist_del(&trigger->link): the neighbours are linked to each other and the
\* node to itself.
rlist_del(t, item) ==
    LET p == t.prev[item]
        n == t.next[item]
        u == [t EXCEPT !.next[p] = n]
        v == [u EXCEPT !.prev[n] = p]
    IN  [v EXCEPT !.next[item] = item, !.prev[item] = item]

\* trigger_add(list, trigger): rlist_add_entry at the head of the list.
trigger_add(t, item) ==
    LET first == t.next[ListHead]
        a == [t EXCEPT !.next[item] = first, !.prev[item] = ListHead]
        b == [a EXCEPT !.prev[first] = item]
    IN  [b EXCEPT !.next[ListHead] = item]

\* trigger->run(trigger, event): the callback is invoked; one that clears
\* itself calls trigger_clear(trigger) before it returns or throws.
trigger_callback(t, item) ==
    LET c == [t EXCEPT !.calls = Append(@, item)] IN
    IF t.clears[item] THEN rlist_del(c, item) ELSE c

\* The traversal with rlist_foreach_entry: the next node is read from the
\* node after its callback has run.
RECURSIVE trigger_loop_unsafe(_, _, _, _)
trigger_loop_unsafe(t, item, reverse, fuel) ==
    IF item = ListHead
    THEN [t EXCEPT !.ret = 0, !.returned = TRUE]
    ELSE IF fuel = 0
    THEN t
    ELSE LET c == trigger_callback(t, item)
             tmp == IF reverse THEN c.prev[item] ELSE c.next[item]
         IN  IF t.run[item] /= "ok"
             THEN [c EXCEPT !.ret = -1, !.returned = TRUE]
             ELSE trigger_loop_unsafe(c, tmp, reverse, fuel - 1)

\* The loop of trigger_run and trigger_run_reverse, from the node item on:
\* rlist_foreach_entry_safe reads the next node into tmp before the callback
\* runs; a callback that returns non-zero or throws ends the run with -1.
RECURSIVE trigger_loop(_, _, _, _)
trigger_loop(t, item, reverse, fuel) ==
    IF item = ListHead
    THEN [t EXCEPT !.ret = 0, !.returned = TRUE]
    ELSE IF fuel = 0
    THEN t
    ELSE LET tmp == IF reverse THEN t.prev[item] ELSE t.next[item]
             c == trigger_callback(t, item)
         IN  IF t.run[item] /= "ok"
             THEN [c EXCEPT !.ret = -1, !.returned = TRUE]
             ELSE trigger_loop(c, tmp, reverse, fuel - 1)

\* trigger_run(list, event)
trigger_run(t) ==
    trigger_loop([t EXCEPT !.calls = <<>>, !.ret = 0,
                           !.returned = FALSE, !.dir = "forward",
                           !.order = rlist_entries(t, t.next[ListHead],
                                                   MaxTriggers)],
                 t.next[ListHead], FALSE, MaxTriggers + 1)

\* trigger_run_reverse(list, event)
trigger_run_reverse(t) ==
    trigger_loop([t EXCEPT !.calls = <<>>, !.ret = 0,
                           !.returned = FALSE, !.dir = "reverse",
                           !.order = rlist_entries(t, t.next[ListHead],
                                                   MaxTriggers)],
                 t.prev[ListHead], TRUE, MaxTriggers + 1)

(* ---------------------------------------------------- fiber.c, cord_start *)

Cords == 1..MaxCords

\* The entry functions and the arguments a caller of cord_start passes.
Entries == 1..2

EntryArgs == 1..2

\* No cord_start call has been made, no thread exists.
CordStartInit ==
    [pc |-> "idle", cord |-> 0,
     ct_arg |-> [f |-> 0, arg |-> 0, is_started |-> FALSE],
     live |-> FALSE, start_mutex |-> "unlocked", start_cond |-> FALSE,
     res |-> -1,
     loop |-> [c \in Cords |-> "NULL"],
     loop_new |-> [c \in Cords |-> FALSE],
     loop_destroyed |-> [c \in Cords |-> FALSE],
     tpc |-> [c \in Cords |-> "none"],
     tf |-> [c \in Cords |-> 0],
     targ |-> [c \in Cords |-> 0],
     created |-> [c \in Cords |-> FALSE],
     returned |-> [c \in Cords |-> FALSE],
     ret |-> [c \in Cords |-> 0],
     given |-> [c \in Cords |-> <<0, 0>>],
     read_live |-> [c \in Cords |-> FALSE],
     started_locked |-> [c \in Cords |-> FALSE]]

\* cord_start up to ev_loop_new: res = -1, the block ct_arg on the caller's
\* stack is initialized, start_mutex is locked.
cord_start_enter(s, c, f, arg) ==
    [s EXCEPT !.cs.pc = "loop_new",
              !.cs.cord = c,
              !.cs.ct_arg = [f |-> f, arg |-> arg, is_started |-> FALSE],
              !.cs.live = TRUE,
              !.cs.start_mutex = "starter",
              !.cs.start_cond = FALSE,
              !.cs.res = -1,
              !.cs.given[c] = <<f, arg>>]

\* cord->loop = ev_loop_new(...); NULL goes to end.
cord_start_loop_new(s, ok) ==
    LET c == s.cs.cord IN
    IF ok
    THEN [s EXCEPT !.cs.loop[c] = "loop", !.cs.loop_new[c] = TRUE,
                   !.cs.pc = "create"]
    ELSE [s EXCEPT !.cs.loop[c] = "NULL", !.cs.pc = "end"]

\* tt_pthread_create(&cord->id, NULL, cord_thread_func, &ct_arg); a failure
\* goes to end, a success sets res = 0 and the thread exists.
cord_start_pthread_create(s, ok) ==
    LET c == s.cs.cord IN
    IF ok
    THEN [s EXCEPT !.cs.tpc[c] = "cord_create", !.cs.res = 0,
                   !.cs.pc = "wait"]
    ELSE [s EXCEPT !.cs.pc = "end"]

\* The loop of a caller that does not wait for the thread.
cord_start_wait_none(s) == [s EXCEPT !.cs.pc = "end"]

\* while (! ct_arg.is_started) tt_pthread_cond_wait(...): the test, made with
\* the mutex held; the wait releases the mutex and blocks.
cord_start_wait(s) ==
    IF s.cs.ct_arg.is_started
    THEN [s EXCEPT !.cs.pc = "end"]
    ELSE [s EXCEPT !.cs.pc = "blocked", !.cs.start_mutex = "unlocked",
                   !.cs.start_cond = FALSE]

\* pthread_cond_wait is woken, by the signal or spuriously; it has to take
\* the mutex again before it returns.
cord_start_woken(s) == [s EXCEPT !.cs.pc = "relock"]

cord_start_relock(s) ==
    [s EXCEPT !.cs.pc = "wait", !.cs.start_mutex = "starter"]

\* end: the loop is destroyed if res != 0, the mutex is unlocked, mutex and
\* condition are destroyed, and the block ct_arg goes out of scope.
cord_start_end(s) ==
    LET c == s.cs.cord
        t == IF s.cs.res # 0 /\ s.cs.loop[c] # "NULL"
             THEN [s EXCEPT !.cs.loop[c] = "NULL",
                            !.cs.loop_destroyed[c] = TRUE]
             ELSE s
    IN [t EXCEPT !.cs.pc = "idle",
                 !.cs.start_mutex = "unlocked",
                 !.cs.live = FALSE,
                 !.cs.returned[c] = TRUE,
                 !.cs.ret[c] = s.cs.res]

\* The block that cord_thread_func got a pointer to is still in scope.
ct_arg_live(s, c) == s.cs.live /\ s.cs.cord = c

\* cord_thread_func: cord_create(ct_arg->cord, ct_arg->name).
cord_thread_func_create(s, c) ==
    [s EXCEPT !.cs.created[c] = TRUE, !.cs.tpc[c] = "lock"]

\* tt_pthread_mutex_lock(&ct_arg->start_mutex).
cord_thread_func_lock(s, c) ==
    [s EXCEPT !.cs.tpc[c] = "read",
              !.cs.start_mutex = IF ct_arg_live(s, c) THEN "thread" ELSE @]

\* f = ct_arg->f; arg = ct_arg->arg; ct_arg->is_started = true; signal.
\* Out of its scope the block holds whatever the stack holds now (gf, garg),
\* and the store hits the block of a later call or nothing (hit).
cord_thread_func_started(s, c, gf, garg, hit) ==
    IF ct_arg_live(s, c)
    THEN [s EXCEPT !.cs.tf[c] = s.cs.ct_arg.f,
                   !.cs.targ[c] = s.cs.ct_arg.arg,
                   !.cs.ct_arg.is_started = TRUE,
                   !.cs.start_cond = TRUE,
                   !.cs.read_live[c] = TRUE,
                   !.cs.started_locked[c] = (s.cs.start_mutex = "thread"),
                   !.cs.tpc[c] = "unlock"]
    ELSE [s EXCEPT !.cs.tf[c] = gf,
                   !.cs.targ[c] = garg,
                   !.cs.ct_arg.is_started = IF hit /\ s.cs.live THEN TRUE ELSE @,
                   !.cs.tpc[c] = "unlock"]

\* tt_pthread_mutex_unlock(&ct_arg->start_mutex).
cord_thread_func_unlock(s, c) ==
    [s EXCEPT !.cs.tpc[c] = "body",
              !.cs.start_mutex = IF ct_arg_live(s, c) THEN "unlocked" ELSE @]

\* res = f(arg): the body runs with what the thread has read.
cord_thread_func_body(s, c) == [s EXCEPT !.cs.tpc[c] = "done"]

(* ------------------------------------------------------------- msgpuck   *)
(* A MessagePack buffer is a sequence of bytes; a byte of the model is the *)
(* type it starts and the value it carries, or padding of a longer header. *)

Byte(t, v) == [t |-> t, v |-> v]

Pad(k) == [i \in 1..k |-> Byte("pad", 0)]

UINT64_MAX == 2 ^ IntWidth - 1

INT64_MIN == -(2 ^ (IntWidth - 1))

\* The sizes of the encodings, with the thresholds of the format scaled to
\* the width of the model.
mp_sizeof_uint(n) == IF n <= 3 THEN 1 ELSE IF n <= 7 THEN 2 ELSE 3

mp_sizeof_int(n) == IF n >= -2 THEN 1 ELSE IF n >= -4 THEN 2 ELSE 3

mp_sizeof_double == 9

mp_sizeof_float == 5

mp_sizeof_decimal(v) == IF v > -10 /\ v < 10 THEN 4 ELSE 5

mp_sizeof_strl(len) == IF len <= 2 THEN 1 ELSE 2

mp_sizeof_str(len) == mp_sizeof_strl(len) + len

mp_sizeof_array(n) == IF n <= 2 THEN 1 ELSE 3

mp_sizeof_map(n) == IF n <= 2 THEN 1 ELSE 3

mp_encode_uint(n) == <<Byte("uint", n)>> \o Pad(mp_sizeof_uint(n) - 1)

mp_encode_int(n) == <<Byte("int", n)>> \o Pad(mp_sizeof_int(n) - 1)

mp_encode_double(v) == <<Byte("double", v)>> \o Pad(mp_sizeof_double - 1)

mp_encode_float(v) == <<Byte("float", v)>> \o Pad(mp_sizeof_float - 1)

mp_encode_decimal(v) == <<Byte("decimal", v)>> \o Pad(mp_sizeof_decimal(v) - 1)

mp_encode_strl(len) == <<Byte("str", len)>> \o Pad(mp_sizeof_strl(len) - 1)

\* A string is a sequence of character codes.
mp_encode_str(str) ==
    mp_encode_strl(Len(str)) \o [i \in 1..Len(str) |-> Byte("chr", str[i])]

mp_encode_array(n) == <<Byte("array", n)>> \o Pad(mp_sizeof_array(n) - 1)

mp_encode_map(n) == <<Byte("map", n)>> \o Pad(mp_sizeof_map(n) - 1)

\* mp_typeof(*p).
mp_typeof(b) ==
    CASE b.t = "uint" -> "MP_UINT"
      [] b.t = "int" -> "MP_INT"
      [] b.t = "double" -> "MP_DOUBLE"
      [] b.t = "float" -> "MP_FLOAT"
      [] b.t = "decimal" -> "MP_EXT"
      [] b.t = "str" -> "MP_STR"
      [] b.t = "array" -> "MP_ARRAY"
      [] b.t = "map" -> "MP_MAP"
      [] OTHER -> "MP_NIL"

(* ------------------------------------------- update_field.c, arithmetic *)

\* enum arith_type: make_arith_operation takes the lower of two types,
\* treats AT_INT as the result only of two integers and everything from
\* AT_DOUBLE up, short of AT_INT, as floating point.
AT_DECIMAL == 0

AT_DOUBLE == 1

AT_FLOAT == 2

AT_INT == 3

ArithTypes == {AT_DECIMAL, AT_DOUBLE, AT_FLOAT, AT_INT}

\* struct int96_num: two's complement in one and a half integer widths.
Int96Width == IntWidth + IntWidth \div 2

int96_wrap(x) ==
    ((x + 2 ^ (Int96Width - 1)) % 2 ^ Int96Width) - 2 ^ (Int96Width - 1)

int96_add(a, b) == int96_wrap(a + b)

int96_invert(a) == int96_wrap(-a)

int96_is_uint64(a) == a >= 0 /\ a <= UINT64_MAX

int96_is_neg_int64(a) == a < 0 /\ a >= INT64_MIN

\* (float)c: the nearest value with FloatMantissa significant bits, ties to
\* the even one.
RECURSIVE float_step(_, _)
float_step(n, step) ==
    IF n \div step < 2 ^ FloatMantissa THEN step ELSE float_step(n, 2 * step)

float_round(n) ==
    LET step == float_step(n, 1)
        q == n \div step
        r == n % step
    IN IF 2 * r < step \/ (2 * r = step /\ q % 2 = 0)
       THEN q * step
       ELSE (q + 1) * step

float_cast(c) == IF c < 0 THEN -float_round(-c) ELSE float_round(c)

ArithArg(type, val) == [type |-> type, val |-> val]

\* The outcome of a function that returns 0 or -1 with a diagnostic.
Ok(ret) == [rc |-> 0, err |-> "none", ret |-> ret]

Err(err, ret) == [rc |-> -1, err |-> err, ret |-> ret]

\* mp_read_arith_arg on the bytes of a field.
mp_read_arith_arg(old) ==
    LET b == old[1] IN
    CASE mp_typeof(b) \in {"MP_UINT", "MP_INT"} -> Ok(ArithArg(AT_INT, b.v))
      [] mp_typeof(b) = "MP_DOUBLE" -> Ok(ArithArg(AT_DOUBLE, b.v))
      [] mp_typeof(b) = "MP_FLOAT" -> Ok(ArithArg(AT_FLOAT, b.v))
      [] mp_typeof(b) = "MP_EXT" -> Ok(ArithArg(AT_DECIMAL, b.v))
      [] OTHER -> Err("UpdateArgType", ArithArg(AT_INT, 0))

cast_arith_arg_to_double(arg) == arg.val

\* cast_arith_arg_to_decimal: NULL (FALSE here) for a floating point value
\* no decimal holds.
DecimalMax == 10 ^ DecimalDigits - 1

decimal_fits(v) == v >= -DecimalMax /\ v <= DecimalMax

cast_arith_arg_to_decimal_ok(arg) ==
    arg.type \in {AT_DECIMAL, AT_INT} \/ decimal_fits(arg.val)

\* A make_arith_operation whose integer result wraps to the integer width.
make_arith_operation_wrap(opcode, arg2, arg) ==
    LET c == IF opcode = "+" THEN arg.val + arg2.val ELSE arg.val - arg2.val
        lowest_type == IF arg.type > arg2.type THEN arg2.type ELSE arg.type
    IN Ok(ArithArg(lowest_type,
                   IF c > UINT64_MAX THEN c - 2 ^ IntWidth
                   ELSE IF c < INT64_MIN THEN c + 2 ^ IntWidth ELSE c))

\* A make_arith_operation whose result has the type of the field.
make_arith_operation_left(opcode, arg2, arg) ==
    Ok(ArithArg(arg.type,
                IF opcode = "+" THEN arg.val + arg2.val ELSE arg.val - arg2.val))

\* make_arith_operation(op, arg, ret) for an op with opcode and argument arg2.
make_arith_operation(opcode, arg2, arg) ==
    LET arg1 == arg
        lowest_type == IF arg1.type > arg2.type THEN arg2.type ELSE arg1.type
    IN
    IF lowest_type = AT_INT
    THEN LET sum == IF opcode = "+"
                    THEN int96_add(arg1.val, arg2.val)
                    ELSE int96_add(arg1.val, int96_invert(arg2.val))
         IN IF ~int96_is_uint64(sum) /\ ~int96_is_neg_int64(sum)
            THEN Err("UpdateIntegerOverflow", arg2)
            ELSE Ok(ArithArg(AT_INT, sum))
    ELSE IF lowest_type >= AT_DOUBLE
    THEN LET a == cast_arith_arg_to_double(arg1)
             b == cast_arith_arg_to_double(arg2)
             c == IF opcode = "+" THEN a + b ELSE a - b
         IN IF lowest_type = AT_DOUBLE
            THEN Ok(ArithArg(AT_DOUBLE, c))
            ELSE Ok(ArithArg(AT_FLOAT, float_cast(c)))
    ELSE IF ~cast_arith_arg_to_decimal_ok(arg1)
            \/ ~cast_arith_arg_to_decimal_ok(arg2)
    THEN Err("UpdateArgType", arg2)
    ELSE LET c == IF opcode = "+" THEN arg1.val + arg2.val
                                  ELSE arg1.val - arg2.val
         IN IF ~decimal_fits(c)
            THEN Err("UpdateDecimalOverflow", arg2)
            ELSE Ok(ArithArg(AT_DECIMAL, c))

update_arith_sizeof(arg) ==
    CASE arg.type = AT_INT ->
            IF int96_is_uint64(arg.val) THEN mp_sizeof_uint(arg.val)
                                        ELSE mp_sizeof_int(arg.val)
      [] arg.type = AT_DOUBLE -> mp_sizeof_double
      [] arg.type = AT_FLOAT -> mp_sizeof_float
      [] OTHER -> mp_sizeof_decimal(arg.val)

store_op_arith(arg) ==
    CASE arg.type = AT_INT ->
            IF int96_is_uint64(arg.val) THEN mp_encode_uint(arg.val)
                                        ELSE mp_encode_int(arg.val)
      [] arg.type = AT_DOUBLE -> mp_encode_double(arg.val)
      [] arg.type = AT_FLOAT -> mp_encode_float(arg.val)
      [] OTHER -> mp_encode_decimal(arg.val)

\* update_op_do_arith(op, old): the result replaces the argument of the op,
\* and new_field_len is its encoded size.
update_op_do_arith(opcode, arg2, old) ==
    LET left_arg == mp_read_arith_arg(old) IN
    IF left_arg.rc # 0
    THEN [rc |-> -1, err |-> left_arg.err, arg |-> arg2, new_field_len |-> 0]
    ELSE LET r == make_arith_operation(opcode, arg2, left_arg.ret) IN
         IF r.rc # 0
         THEN [rc |-> -1, err |-> r.err, arg |-> arg2, new_field_len |-> 0]
         ELSE [rc |-> 0, err |-> "none", arg |-> r.ret,
               new_field_len |-> update_arith_sizeof(r.ret)]

\* The values of each arithmetic type that the model works with.
ArithValues(type) ==
    CASE type = AT_INT -> INT64_MIN..UINT64_MAX
      [] type = AT_DOUBLE -> {-DecimalMax - 1, -3, 0, 2, 9, DecimalMax + 1}
      [] type = AT_FLOAT -> {-6, 0, 1, 5, 12}
      [] OTHER -> {-DecimalMax, -1, 0, 7, DecimalMax}

ArithArgs == UNION {{ArithArg(type, v) : v \in ArithValues(type)} :
                    type \in ArithTypes}

\* The calls of update_op_do_arith: '+' or '-' with a numeric argument, on
\* a field that holds a number or a string; given keeps the argument.
ArithCalls ==
    {[call |-> "arith", opcode |-> opcode, arg |-> arg, given |-> arg,
      old |-> old, returned |-> FALSE, rc |-> 0, err |-> "none",
      new_field_len |-> 0] :
        opcode \in {"+", "-"}, arg \in ArithArgs,
        old \in {store_op_arith(a) : a \in ArithArgs}
                \cup {mp_encode_str(<<1>>)}}

(* ----------------------------------------------- update_field.c, splice *)

INT32_MIN == -(2 ^ (Int32Width - 1))

INT32_MAX == 2 ^ (Int32Width - 1) - 1

\* What a register of the width of int32_t holds after an operation.
int32_wrap(x) ==
    ((x + 2 ^ (Int32Width - 1)) % 2 ^ Int32Width) - 2 ^ (Int32Width - 1)

\* -x > y on int32_t.  -INT32_MIN overflows, which is undefined: the build
\* either negates in the register (wrapped) or has rewritten the test on
\* the assumption that nothing overflows.
neg_greater(x, y, wrapped) ==
    IF x = INT32_MIN /\ wrapped THEN int32_wrap(-x) > y ELSE -x > y

\* The characters of the string whose encoding is old.
mp_decode_str(old) ==
    [i \in 1..old[1].v |-> old[mp_sizeof_strl(old[1].v) + i].v]

\* read_arg_splice: offset, cut length and paste of the operation.
read_arg_splice(offset, cut_length, paste, index_base) ==
    IF offset >= 0 /\ offset - index_base < 0
    THEN Err("UpdateSplice", [offset |-> offset, cut_length |-> cut_length,
                              paste |-> paste])
    ELSE Ok([offset |-> IF offset >= 0 THEN offset - index_base ELSE offset,
             cut_length |-> cut_length, paste |-> paste])

\* update_op_do_splice(op, old) up to the offset.
splice_offset(arg, str_len, wrapped) ==
    IF arg.offset < 0
    THEN IF neg_greater(arg.offset, str_len + 1, wrapped)
         THEN Err("UpdateSplice", arg)
         ELSE Ok([arg EXCEPT !.offset = int32_wrap(@ + str_len + 1)])
    ELSE IF arg.offset > str_len
    THEN Ok([arg EXCEPT !.offset = str_len])
    ELSE Ok(arg)

\* ... and the cut length.
splice_cut(arg, str_len, wrapped) ==
    IF arg.cut_length < 0
    THEN IF neg_greater(arg.cut_length, str_len - arg.offset, wrapped)
         THEN [arg EXCEPT !.cut_length = 0]
         ELSE [arg EXCEPT !.cut_length = int32_wrap(@ + str_len - arg.offset)]
    ELSE IF arg.cut_length > str_len - arg.offset
    THEN [arg EXCEPT !.cut_length = str_len - arg.offset]
    ELSE arg

update_op_do_splice(arg, old, wrapped) ==
    IF mp_typeof(old[1]) # "MP_STR"
    THEN [rc |-> -1, err |-> "UpdateArgType", arg |-> arg, tail_offset |-> 0,
          tail_length |-> 0, new_field_len |-> 0]
    ELSE LET str_len == old[1].v
             o == splice_offset(arg, str_len, wrapped)
         IN IF o.rc # 0
            THEN [rc |-> -1, err |-> o.err, arg |-> arg, tail_offset |-> 0,
                  tail_length |-> 0, new_field_len |-> 0]
            ELSE LET a == splice_cut(o.ret, str_len, wrapped)
                     tail_offset == int32_wrap(a.offset + a.cut_length)
                     tail_length == int32_wrap(str_len - tail_offset)
                 IN [rc |-> 0, err |-> "none", arg |-> a,
                     tail_offset |-> tail_offset, tail_length |-> tail_length,
                     new_field_len |->
                         mp_sizeof_str(a.offset + Len(a.paste) + tail_length)]

\* The three memcpy of store_op_splice stay inside the old string.
splice_in_bounds(r, str_len) ==
    /\ r.arg.offset >= 0 /\ r.arg.offset <= str_len
    /\ r.tail_offset >= 0 /\ r.tail_length >= 0
    /\ r.tail_offset + r.tail_length <= str_len

\* store_op_splice(op, in, out): what it writes; nothing the model can name
\* if a copy leaves the old string.
store_op_splice(r, in) ==
    LET src == mp_decode_str(in) IN
    IF ~splice_in_bounds(r, Len(src))
    THEN <<>>
    ELSE mp_encode_strl(r.arg.offset + Len(r.arg.paste) + r.tail_length)
         \o [i \in 1..r.arg.offset |-> Byte("chr", src[i])]
         \o [i \in 1..Len(r.arg.paste) |-> Byte("chr", r.arg.paste[i])]
         \o [i \in 1..r.tail_length |-> Byte("chr", src[r.tail_offset + i])]

\* A splice operation is decoded and applied to a field, and the field is
\* stored.
do_splice(c, wrapped) ==
    LET a == read_arg_splice(c.offset, c.cut_length, c.paste, c.index_base) IN
    IF a.rc # 0
    THEN [c EXCEPT !.returned = TRUE, !.rc = -1, !.err = a.err]
    ELSE LET r == update_op_do_splice(a.ret, c.old, wrapped) IN
         IF r.rc # 0
         THEN [c EXCEPT !.returned = TRUE, !.rc = -1, !.err = r.err]
         ELSE [c EXCEPT !.returned = TRUE, !.rc = 0,
                        !.arg = [offset |-> r.arg.offset,
                                 cut_length |-> r.arg.cut_length],
                        !.new_field_len = r.new_field_len,
                        !.in_bounds = splice_in_bounds(r, c.old[1].v),
                        !.out = store_op_splice(r, c.old)]

\* The calls: every offset and cut length of the width, on strings of up to
\* three characters and on a number.
SpliceCalls ==
    {[call |-> "splice", index_base |-> index_base, offset |-> offset,
      cut_length |-> cut_length, paste |-> paste, old |-> old,
      returned |-> FALSE, rc |-> 0, err |-> "none",
      arg |-> [offset |-> 0, cut_length |-> 0], new_field_len |-> 0,
      in_bounds |-> TRUE, out |-> <<>>] :
        index_base \in {0, 1}, offset \in INT32_MIN..INT32_MAX,
        cut_length \in INT32_MIN..INT32_MAX, paste \in {<<>>, <<7>>, <<7, 8>>},
        old \in {mp_encode_str(<<>>), mp_encode_str(<<1>>),
                 mp_encode_str(<<1, 2>>), mp_encode_str(<<1, 2, 3>>),
                 mp_encode_uint(1)}}

(* ------------------------------------------- update.c, update_read_ops *)

\* A column mask is the set of its bits that are set.
COLUMN_MASK_FULL == 0..(MaskWidth - 1)

\* column_mask_set_fieldno: the last bit stands for every higher field.
column_mask_set_fieldno(column_mask, fieldno) ==
    IF fieldno >= MaskWidth - 1
    THEN column_mask \cup {MaskWidth - 1}
    ELSE column_mask \cup {fieldno}

\* column_mask_set_range: the bits from the field upward.
column_mask_set_range(column_mask, first_fieldno_in_range) ==
    IF first_fieldno_in_range < MaskWidth - 1
    THEN column_mask \cup (first_fieldno_in_range..(MaskWidth - 1))
    ELSE column_mask \cup {MaskWidth - 1}

\* The field number update_op_decode leaves in op->field_no for an integer
\* field address.
update_op_decode_field_no(field_no, index_base) ==
    IF field_no - index_base >= 0 THEN Ok(field_no - index_base)
    ELSE IF field_no < 0 THEN Ok(field_no)
    ELSE Err("NoSuchFieldNo", field_no)

\* The body of the loop of a update_read_ops that sets one bit for every op.
update_read_op_bit(op, field_no, st) ==
    IF st.column_mask = COLUMN_MASK_FULL THEN st
    ELSE [st EXCEPT !.column_mask =
              column_mask_set_fieldno(@, IF field_no >= 0 THEN field_no ELSE 0)]

\* The body of the loop of update_read_ops after the op is decoded; st is
\* column_mask and field_count_hint.
update_read_op(op, field_no, st) ==
    IF st.column_mask = COLUMN_MASK_FULL THEN st
    ELSE LET no == IF field_no >= 0 THEN field_no
                   ELSE IF op.opcode # "!"
                   THEN st.field_count_hint + field_no
                   ELSE st.field_count_hint + field_no + 1
         IN IF no < 0
            THEN [st EXCEPT !.column_mask = column_mask_set_range(@, 0)]
            ELSE [column_mask |->
                      IF op.opcode \in {"!", "#"}
                      THEN column_mask_set_range(st.column_mask, no)
                      ELSE column_mask_set_fieldno(st.column_mask, no),
                  field_count_hint |->
                      IF op.opcode = "!" THEN st.field_count_hint + 1
                      ELSE IF op.opcode = "#"
                      THEN st.field_count_hint - op.count
                      ELSE st.field_count_hint]

\* The loop of update_read_ops from operation i on.
RECURSIVE update_read_ops_from(_, _, _, _)
update_read_ops_from(ops, i, index_base, st) ==
    IF i > Len(ops) THEN Ok(st.column_mask)
    ELSE LET d == update_op_decode_field_no(ops[i].field_no, index_base) IN
         IF d.rc # 0 THEN Err(d.err, {})
         ELSE update_read_ops_from(ops, i + 1, index_base,
                                   update_read_op(ops[i], d.ret, st))

update_read_ops(ops, index_base, field_count_hint) ==
    update_read_ops_from(ops, 1, index_base,
                         [column_mask |-> {},
                          field_count_hint |-> field_count_hint])

\* The operations of the model: a set, an insertion, or a deletion of one or
\* two fields, at a field address as the request gives it.
MaskOps ==
    {[opcode |-> opcode, field_no |-> field_no, count |-> 1] :
        opcode \in {"=", "!", "#"}, field_no \in -4..4}
    \cup {[opcode |-> "#", field_no |-> field_no, count |-> 2] :
             field_no \in -4..4}

\* The calls: update_read_ops on up to MaxOps operations, for a record of
\* three fields or with no record at hand.
MaskCalls ==
    {[call |-> "read_ops", ops |-> ops, index_base |-> index_base,
      field_count_hint |-> hint, returned |-> FALSE, rc |-> 0,
      column_mask |-> {}] :
        ops \in UNION {[1..n -> MaskOps] : n \in 0..MaxOps},
        index_base \in {0, 1}, hint \in {0, 3}}

(* ------------------------------------ update.c, update and upsert execute *)

\* A field of a record is a number, as the arithmetic sees it, or a string
\* of one character: the type of everything that is not a number.
FieldStr == 4

StrField(c) == [type |-> FieldStr, val |-> c]

\* The MessagePack bytes of a field.
FieldBytes(v) ==
    IF v.type = FieldStr THEN mp_encode_str(<<v.val>>) ELSE store_op_arith(v)

\* An operation as the request gives it: '=' with a value, '+' or '-' with a
\* number, on an integer field address.
UpdateOp(opcode, field_no, arg) ==
    [opcode |-> opcode, field_no |-> field_no, arg |-> arg]

\* update_array_create: every field of the old record is an unchanged item.
update_array_create(record) ==
    [i \in 1..Len(record) |-> [type |-> "NOP", value |-> record[i]]]

\* update_op_adjust_field_no: a negative number counts from the end.
update_op_adjust_field_no(field_no, size) ==
    IF field_no >= 0
    THEN IF field_no < size THEN Ok(field_no) ELSE Err("NoSuchField", field_no)
    ELSE IF field_no + size >= 0 THEN Ok(field_no + size)
    ELSE Err("NoSuchField", field_no)

\* do_op_array_set and do_op_array_arith on the root array; field_no is the
\* decoded one.  A set at the size of the array appends.
do_op_array(op, field_no, root) ==
    IF op.opcode = "=" /\ field_no = Len(root)
    THEN Ok(Append(root, [type |-> "NOP", value |-> op.arg]))
    ELSE LET a == update_op_adjust_field_no(field_no, Len(root)) IN
         IF a.rc # 0 THEN Err(a.err, root)
         ELSE LET item == root[a.ret + 1] IN
              IF item.type # "NOP" THEN Err("UpdateField", root)
              ELSE IF op.opcode = "="
              THEN Ok([root EXCEPT ![a.ret + 1] =
                          [type |-> "SCALAR", value |-> op.arg]])
              ELSE LET r == update_op_do_arith(op.opcode, op.arg,
                                               FieldBytes(item.value))
                   IN IF r.rc # 0 THEN Err(r.err, root)
                      ELSE Ok([root EXCEPT ![a.ret + 1] =
                                  [type |-> "SCALAR", value |-> r.arg]])

\* op->meta->do_op(op, &update->root); the allocation it makes fails if oom.
do_op(op, field_no, root, oom) ==
    IF oom THEN Err("OutOfMemory", root) ELSE do_op_array(op, field_no, root)

\* The errors that are not of type ClientError.
IsClientError(err) == err # "OutOfMemory"

\* The decoded field number of an operation.
op_field_no(op, index_base) ==
    update_op_decode_field_no(op.field_no, index_base).ret

\* The state of an execute call: the tree, the operations do_op was called
\* for, and the ones whose failure was logged.
ExecStart(record) ==
    [rc |-> 0, err |-> "none", root |-> update_array_create(record),
     tried |-> <<>>, log |-> <<>>]

\* update_do_ops from operation i on.
RECURSIVE update_do_ops(_, _, _, _, _)
update_do_ops(ops, i, index_base, oom_at, st) ==
    IF i > Len(ops) THEN st
    ELSE LET r == do_op(ops[i], op_field_no(ops[i], index_base), st.root,
                        oom_at = i)
             t == [st EXCEPT !.tried = Append(@, i)]
         IN IF r.rc # 0
            THEN [t EXCEPT !.rc = -1, !.err = r.err]
            ELSE update_do_ops(ops, i + 1, index_base, oom_at,
                               [t EXCEPT !.root = r.ret])

\* upsert_do_ops from operation i on.
RECURSIVE upsert_do_ops(_, _, _, _, _, _)
upsert_do_ops(ops, i, index_base, oom_at, suppress_error, st) ==
    IF i > Len(ops) THEN st
    ELSE LET r == do_op(ops[i], op_field_no(ops[i], index_base), st.root,
                        oom_at = i)
             t == [st EXCEPT !.tried = Append(@, i)]
         IN IF r.rc = 0
            THEN upsert_do_ops(ops, i + 1, index_base, oom_at, suppress_error,
                               [t EXCEPT !.root = r.ret])
            ELSE IF ~IsClientError(r.err)
            THEN [t EXCEPT !.rc = -1, !.err = r.err]
            ELSE upsert_do_ops(ops, i + 1, index_base, oom_at, suppress_error,
                               IF ~suppress_error
                               THEN [t EXCEPT !.log = Append(@, i)]
                               ELSE t)

\* The operations decode: no integer field address lies in [0, index_base).
update_decode_ok(ops, index_base) ==
    \A i \in 1..Len(ops) :
        update_op_decode_field_no(ops[i].field_no, index_base).rc = 0

\* update_finish: the record the tree stores.
update_finish(root) == [i \in 1..Len(root) |-> root[i].value]

\* tuple_update_execute and tuple_upsert_execute: NULL (no result) or the
\* new record.
tuple_execute(mode, ops, record, index_base, suppress_error, oom_at) ==
    IF ~update_decode_ok(ops, index_base)
    THEN [ExecStart(record) EXCEPT !.rc = -1, !.err = "NoSuchFieldNo"]
    ELSE IF mode = "update"
    THEN update_do_ops(ops, 1, index_base, oom_at, ExecStart(record))
    ELSE upsert_do_ops(ops, 1, index_base, oom_at, suppress_error,
                       ExecStart(record))

\* The operations of the execute calls of the model, on a record of two
\* fields: the greatest integer and a string.
ExecRecord == <<ArithArg(AT_INT, UINT64_MAX), StrField(1)>>

ExecOps ==
    {UpdateOp("=", f, StrField(2)) : f \in 1..3}
    \cup {UpdateOp(opcode, f, ArithArg(AT_INT, 1)) :
             opcode \in {"+", "-"}, f \in 1..3}

ExecCalls ==
    {[call |-> "execute", mode |-> mode, ops |-> ops, record |-> ExecRecord,
      index_base |-> 1, suppress_error |-> suppress_error, oom_at |-> oom_at,
      returned |-> FALSE, rc |-> 0, err |-> "none", result |-> <<>>,
      tried |-> <<>>, log |-> <<>>] :
        mode \in {"update", "upsert"},
        ops \in UNION {[1..n -> ExecOps] : n \in 0..MaxOps},
        suppress_error \in BOOLEAN, oom_at \in 0..MaxOps}

(* ------------------------------------------ update.c, tuple_upsert_squash *)

\* The first loop over one list: it decodes, holds only '=', '+' and '-',
\* and every field number is above the one before, from index_base - 1 on.
RECURSIVE squash_list_ok(_, _, _, _)
squash_list_ok(ops, i, index_base, prev_field_no) ==
    IF i > Len(ops) THEN TRUE
    ELSE /\ ops[i].opcode \in {"+", "-", "="}
         /\ op_field_no(ops[i], index_base) > prev_field_no
         /\ squash_list_ok(ops, i + 1, index_base,
                           op_field_no(ops[i], index_base))

\* arg.arith of the left operation of a merge, as the merge reads it.  The
\* argument is a union: of a '=' the arithmetic member was never written,
\* and int96_invert negates the integer member whatever the number's type
\* is; in both cases the value read is any (garbage).
squash_left_arith(op, garbage) ==
    IF op.opcode = "=" THEN garbage
    ELSE IF op.opcode = "+" THEN op.arg
    ELSE IF op.arg.type = AT_INT
    THEN ArithArg(AT_INT, int96_invert(op.arg.val))
    ELSE ArithArg(op.arg.type, garbage.val)

\* The merge loop from operation i of the left and j of the right list.
RECURSIVE squash_merge(_, _, _, _, _, _, _)
squash_merge(left, right, i, j, index_base, garbage, res) ==
    LET has0 == i <= Len(left)
        has1 == j <= Len(right)
        f0 == op_field_no(left[i], index_base)
        f1 == op_field_no(right[j], index_base)
        from == IF has0 /\ has1
                THEN IF f0 < f1 THEN 0 ELSE IF f0 > f1 THEN 1 ELSE 2
                ELSE IF has1 THEN 1 ELSE 0
    IN
    IF ~has0 /\ ~has1 THEN Ok(res)
    ELSE IF from = 2 /\ right[j].opcode = "="
    THEN squash_merge(left, right, i + 1, j + 1, index_base, garbage,
                      Append(res, right[j]))
    ELSE IF from = 0
    THEN squash_merge(left, right, i + 1, j, index_base, garbage,
                      Append(res, left[i]))
    ELSE IF from = 1
    THEN squash_merge(left, right, i, j + 1, index_base, garbage,
                      Append(res, right[j]))
    ELSE LET opcode0 == IF left[i].opcode = "-" THEN "+" ELSE left[i].opcode
             m == make_arith_operation(right[j].opcode, right[j].arg,
                                       squash_left_arith(left[i], garbage))
         IN IF m.rc # 0 THEN Err(m.err, <<>>)
            ELSE squash_merge(left, right, i + 1, j + 1, index_base, garbage,
                              Append(res, UpdateOp(opcode0, f0 + index_base,
                                                   m.ret)))

\* tuple_upsert_squash: NULL (rc -1) or the squashed list.
tuple_upsert_squash(left, right, index_base, garbage) ==
    IF \/ ~update_decode_ok(left, index_base)
       \/ ~squash_list_ok(left, 1, index_base, index_base - 1)
       \/ ~update_decode_ok(right, index_base)
       \/ ~squash_list_ok(right, 1, index_base, index_base - 1)
    THEN Err("none", <<>>)
    ELSE squash_merge(left, right, 1, 1, index_base, garbage, <<>>)

\* The operations of the squashed lists of the model.
SquashOps ==
    {UpdateOp("=", 1, StrField(1)), UpdateOp("=", 2, StrField(1)),
     UpdateOp("+", 2, ArithArg(AT_INT, 1)),
     UpdateOp("-", 2, ArithArg(AT_INT, 4)),
     UpdateOp("-", 2, ArithArg(AT_DOUBLE, 2)),
     UpdateOp("+", 2, ArithArg(AT_INT, UINT64_MAX)),
     UpdateOp("!", 2, StrField(1)),
     UpdateOp("=", 3, StrField(1)), UpdateOp("=", 3, StrField(2)),
     UpdateOp("+", 3, ArithArg(AT_INT, 1))}

\* The values a read of an unwritten member of the argument can give.
GarbageArgs == {ArithArg(AT_INT, 0), ArithArg(AT_INT, UINT64_MAX),
                ArithArg(AT_DOUBLE, 9)}

\* The records the squashed lists are applied to.
SquashRecords ==
    {<<StrField(1), ArithArg(AT_INT, v), ArithArg(AT_INT, 0)>> :
        v \in {0, UINT64_MAX}}

SquashCalls ==
    {[call |-> "squash", left |-> left, right |-> right,
      index_base |-> index_base, record |-> record,
      returned |-> FALSE, rc |-> 0, result |-> <<>>] :
        left \in UNION {[1..n -> SquashOps] : n \in 0..MaxOps},
        right \in UNION {[1..n -> SquashOps] : n \in 0..MaxOps},
        index_base \in {0, 1}, record \in SquashRecords}

(* --------------------------------------------- update_bar.c, bar updates *)

\* A position in a buffer is the index of a byte; the end of the buffer is
\* one past its last byte.  The number of padding bytes from pos on.
RECURSIVE mp_pads(_, _)
mp_pads(data, pos) ==
    IF pos <= Len(data) /\ data[pos].t = "pad"
    THEN 1 + mp_pads(data, pos + 1) ELSE 0

\* The position behind the header at pos: mp_decode_array, mp_decode_map
\* and mp_decode_strl read a header of any length of the format.
mp_decode_hdr(data, pos) == pos + 1 + mp_pads(data, pos + 1)

\* The position behind the n values from pos on: the elements of an array
\* or a map are values to pass in their turn.
RECURSIVE mp_skip(_, _, _)
mp_skip(data, pos, n) ==
    IF n = 0 THEN pos
    ELSE LET b == data[pos]
             body == mp_decode_hdr(data, pos)
         IN CASE b.t = "str" -> mp_skip(data, body + b.v, n - 1)
              [] b.t = "array" -> mp_skip(data, body, n - 1 + b.v)
              [] b.t = "map" -> mp_skip(data, body, n - 1 + 2 * b.v)
              [] OTHER -> mp_skip(data, body, n - 1)

\* mp_next(&pos): the position behind the value at pos.
mp_next(data, pos) == mp_skip(data, pos, 1)

\* An encoded array or map of the encoded values, with a header that is
\* wider than the shortest one by extra bytes.
RECURSIVE Concat(_)
Concat(values) ==
    IF values = <<>> THEN <<>> ELSE Head(values) \o Concat(Tail(values))

EncodeArray(values, extra) ==
    mp_encode_array(Len(values)) \o Pad(extra) \o Concat(values)

EncodeMap(pairs, extra) ==
    mp_encode_map(Len(pairs) \div 2) \o Pad(extra) \o Concat(pairs)

\* A token of a JSON path: [num] with the number already zero-based, or a
\* key.
TokenNum(num) == [type |-> "JSON_TOKEN_NUM", num |-> num, str |-> <<>>]

TokenStr(str) == [type |-> "JSON_TOKEN_STR", num |-> 0, str |-> str]

\* tuple_field_go_to_index on an array or on a map with string keys: the
\* position of the element, or -1.
tuple_field_go_to_index(data, pos, index) ==
    IF data[pos].t = "array" /\ index < data[pos].v
    THEN Ok(mp_skip(data, mp_decode_hdr(data, pos), index))
    ELSE Err("NoSuchField", pos)

\* The loop of tuple_field_go_to_key over the count pairs from pos on.
RECURSIVE go_to_key_from(_, _, _, _)
go_to_key_from(data, pos, count, key) ==
    IF count = 0 THEN Err("NoSuchField", pos)
    ELSE LET value == mp_next(data, pos)
             chars == mp_decode_hdr(data, pos)
         IN IF /\ data[pos].t = "str"
               /\ data[pos].v = Len(key)
               /\ \A i \in 1..Len(key) : data[chars + i - 1].v = key[i]
            THEN Ok(value)
            ELSE go_to_key_from(data, mp_next(data, value), count - 1, key)

tuple_field_go_to_key(data, pos, key) ==
    IF data[pos].t = "map"
    THEN go_to_key_from(data, mp_decode_hdr(data, pos), data[pos].v, key)
    ELSE Err("NoSuchField", pos)

\* One step down the path, by the type of the token.
go_to_token(data, pos, token) ==
    IF token.type = "JSON_TOKEN_NUM"
    THEN tuple_field_go_to_index(data, pos, token.num)
    ELSE tuple_field_go_to_key(data, pos, token.str)

\* An operation of an update: the path is empty for a terminal one; value
\* is the bytes of '!' and '=', count the number of '#', arith the argument
\* of '+' and '-'.
BarOp(opcode, path, value, count, arith) ==
    [opcode |-> opcode, path |-> path, value |-> value, count |-> count,
     arith |-> arith, new_field_len |-> 0]

\* A field of the tree: unchanged bytes at first.
NopField(data) ==
    [type |-> "UPDATE_NOP", data |-> data, path |-> <<>>, parent |-> 0,
     point |-> 0, point_size |-> 0, new_key |-> <<>>,
     op |-> BarOp("none", <<>>, <<>>, 0, ArithArg(AT_INT, 0))]

\* update_bar_locate from token i at pos: every token has to be found.
RECURSIVE update_bar_locate(_, _, _, _, _)
update_bar_locate(op, field, i, pos, parent) ==
    IF i > Len(op.path)
    THEN Ok([field EXCEPT !.type = "UPDATE_BAR", !.path = op.path,
                          !.point = pos,
                          !.point_size = mp_next(field.data, pos) - pos,
                          !.op = op, !.parent = parent])
    ELSE LET r == go_to_token(field.data, pos, op.path[i]) IN
         IF r.rc # 0 THEN Err("NoSuchField", field)
         ELSE update_bar_locate(op, field, i + 1, r.ret, pos)

\* The loop of update_bar_locate_opt from token i at pos: the last token
\* may be missing.  ret is the bar, is_found and key_len_or_index.
RECURSIVE bar_locate_opt_from(_, _, _, _, _)
bar_locate_opt_from(op, field, i, pos, key_len_or_index) ==
    LET data == field.data
        found(f, is_found, k) ==
            Ok([field |-> f, is_found |-> is_found, key_len_or_index |-> k])
        failed(err, f) ==
            Err(err, [field |-> f, is_found |-> FALSE,
                      key_len_or_index |-> key_len_or_index])
    IN
    IF i > Len(op.path)
    THEN found([field EXCEPT !.point = pos,
                             !.point_size = mp_next(data, pos) - pos],
               TRUE, key_len_or_index)
    ELSE LET token == op.path[i]
             bar == [field EXCEPT !.parent = pos]
             k == IF token.type = "JSON_TOKEN_NUM" THEN token.num
                                                  ELSE Len(token.str)
             r == go_to_token(data, pos, token)
         IN
         IF r.rc = 0 THEN bar_locate_opt_from(op, bar, i + 1, r.ret, k)
         ELSE IF i < Len(op.path) THEN failed("NoSuchField", bar)
         ELSE IF token.type = "JSON_TOKEN_NUM"
         THEN IF data[pos].t # "array" THEN failed("UpdateField", bar)
              ELSE IF token.num > data[pos].v THEN failed("NoSuchField", bar)
              ELSE found([bar EXCEPT !.point =
                             IF pos = 1 THEN Len(data) + 1
                                        ELSE mp_next(data, pos)],
                         FALSE, k)
         ELSE IF data[pos].t # "map" THEN failed("UpdateField", bar)
              ELSE found([bar EXCEPT !.new_key = token.str], FALSE, k)

\* update_bar_locate_opt: the field is a bar from the start.
update_bar_locate_opt(op, field) ==
    bar_locate_opt_from(op, [field EXCEPT !.type = "UPDATE_BAR", !.op = op,
                                          !.path = op.path], 1, 1, 0)

\* The bar with the op as it stands after the call.
bar_with(field, opcode, new_field_len) ==
    [field EXCEPT !.op.opcode = opcode, !.op.new_field_len = new_field_len]

\* do_op_nop_insert after update_bar_locate_opt has returned l.
nop_insert_located(op, l) ==
    IF l.rc # 0 THEN Err(l.err, l.ret.field)
    ELSE IF l.ret.field.data[l.ret.field.parent].t = "map"
    THEN IF l.ret.is_found THEN Err("Duplicate", l.ret.field)
         ELSE Ok(bar_with(l.ret.field, "!",
                          Len(op.value)
                          + mp_sizeof_str(l.ret.key_len_or_index)))
    ELSE Ok(bar_with(l.ret.field, "!", Len(op.value)))

do_op_nop_insert(op, field) ==
    nop_insert_located(op, update_bar_locate_opt(op, field))

\* do_op_nop_set that does not insert what it has not found.
nop_set_located_strict(op, l) ==
    IF l.rc # 0 THEN Err(l.err, l.ret.field)
    ELSE IF l.ret.is_found THEN Ok(bar_with(l.ret.field, "=", Len(op.value)))
    ELSE Err("NoSuchField", l.ret.field)

\* do_op_nop_set after update_bar_locate_opt has returned l.
nop_set_located(op, l) ==
    IF l.rc # 0 THEN Err(l.err, l.ret.field)
    ELSE IF l.ret.is_found THEN Ok(bar_with(l.ret.field, "=", Len(op.value)))
    ELSE IF l.ret.field.data[l.ret.field.parent].t = "map"
    THEN Ok(bar_with(l.ret.field, "!",
                     Len(op.value) + mp_sizeof_str(l.ret.key_len_or_index)))
    ELSE Ok(bar_with(l.ret.field, "!", Len(op.value)))

do_op_nop_set(op, field) ==
    nop_set_located(op, update_bar_locate_opt(op, field))

\* The deletion from the array that is the parent of the located bar: the
\* count is cut to the fields that are left, and the point grows over them.
nop_delete_array(op, bar, index, size) ==
    LET count == IF index + op.count > size THEN size - index ELSE op.count
    IN Ok([bar EXCEPT !.op.count = count,
                      !.point_size =
                          mp_skip(bar.data, bar.point + bar.point_size,
                                  count - 1) - bar.point])

\* do_op_nop_delete after update_bar_locate_opt has returned l.
nop_delete_located(op, l) ==
    IF l.rc # 0 THEN Err(l.err, l.ret.field)
    ELSE IF ~l.ret.is_found THEN Err("NoSuchField", l.ret.field)
    ELSE IF l.ret.field.data[l.ret.field.parent].t = "array"
    THEN nop_delete_array(op, l.ret.field, l.ret.key_len_or_index,
                          l.ret.field.data[l.ret.field.parent].v)
    ELSE IF op.count # 1 THEN Err("UpdateField", l.ret.field)
    ELSE Ok([l.ret.field EXCEPT
                !.point = @ - mp_sizeof_str(l.ret.key_len_or_index),
                !.point_size = @ + mp_sizeof_str(l.ret.key_len_or_index)])

do_op_nop_delete(op, field) ==
    nop_delete_located(op, update_bar_locate_opt(op, field))

\* The bar of an arithmetic operation once update_op_do_arith has returned r.
nop_arith_done(bar, r) ==
    IF r.rc # 0 THEN Err(r.err, bar)
    ELSE Ok([bar EXCEPT !.op.arith = r.arg,
                        !.op.new_field_len = r.new_field_len])

\* do_op_nop_arith after update_bar_locate has returned l.
nop_arith_located(op, field, l) ==
    IF l.rc # 0 THEN Err(l.err, field)
    ELSE nop_arith_done(l.ret,
                        update_op_do_arith(op.opcode, op.arith,
                                           SubSeq(l.ret.data, l.ret.point,
                                                  Len(l.ret.data))))

do_op_nop_arith(op, field) ==
    nop_arith_located(op, field, update_bar_locate(op, field, 1, 1, 0))

\* do_op_bar_insert, _set, _delete, _arith, _bit and _splice.
do_op_bar(op, field) == Err("Unsupported", field)

\* The scalar of a terminal arithmetic operation once update_op_do_arith
\* has returned r.
nop_scalar_done(op, field, r) ==
    IF r.rc # 0 THEN Err(r.err, field)
    ELSE Ok([field EXCEPT !.type = "UPDATE_SCALAR",
                          !.op = [op EXCEPT
                                     !.arith = r.arg,
                                     !.new_field_len = r.new_field_len]])

\* A terminal '=', '+' or '-' on an unchanged field makes it a scalar.
do_op_nop_scalar(op, field) ==
    IF op.opcode = "="
    THEN Ok([field EXCEPT !.type = "UPDATE_SCALAR",
                          !.op = [op EXCEPT !.new_field_len = Len(op.value)]])
    ELSE nop_scalar_done(op, field,
                         update_op_do_arith(op.opcode, op.arith, field.data))

\* update_op_do_field_insert, _set, _delete and _arith: the dispatch by the
\* type of the field and the opcode.
update_op_do_field(op, field) ==
    CASE field.type = "UPDATE_BAR" -> do_op_bar(op, field)
      [] field.type = "UPDATE_SCALAR" -> Err("UpdateField", field)
      [] OTHER ->
         IF op.path = <<>> THEN do_op_nop_scalar(op, field)
         ELSE CASE op.opcode = "!" -> do_op_nop_insert(op, field)
                [] op.opcode = "=" -> do_op_nop_set(op, field)
                [] op.opcode = "#" -> do_op_nop_delete(op, field)
                [] OTHER -> do_op_nop_arith(op, field)

\* op->meta->store of a scalar operation: the bytes it writes.
op_store(op) ==
    IF op.opcode \in {"=", "!"} THEN op.value ELSE store_op_arith(op.arith)

update_bar_sizeof(field) ==
    LET op == field.op
        size == Len(field.data)
        parent == field.data[field.parent]
    IN CASE op.opcode = "!" ->
              IF parent.t = "array"
              THEN size + op.new_field_len + mp_sizeof_array(parent.v + 1)
                   - mp_sizeof_array(parent.v)
              ELSE size + op.new_field_len + mp_sizeof_map(parent.v + 1)
                   - mp_sizeof_map(parent.v)
         [] op.opcode = "#" ->
              IF parent.t = "array"
              THEN size - field.point_size - mp_sizeof_array(parent.v)
                   + mp_sizeof_array(parent.v - op.count)
              ELSE size - field.point_size - mp_sizeof_map(parent.v)
                   + mp_sizeof_map(parent.v - 1)
         [] OTHER -> size - field.point_size + op.new_field_len

\* update_bar_store: the bytes written; the function returns their number,
\* where a scalar operation counts for new_field_len bytes.
update_bar_store(field) ==
    LET op == field.op
        data == field.data
        end == Len(data) + 1
        parent == data[field.parent]
        pos == mp_decode_hdr(data, field.parent)
        before_parent == SubSeq(data, 1, field.parent - 1)
        bytes(from, to) == SubSeq(data, from, to - 1)
    IN CASE op.opcode = "!" ->
              IF parent.t = "array"
              THEN before_parent \o mp_encode_array(parent.v + 1)
                   \o bytes(pos, field.point) \o op.value
                   \o bytes(field.point, end)
              ELSE before_parent \o mp_encode_map(parent.v + 1)
                   \o mp_encode_str(field.new_key) \o op.value
                   \o bytes(pos, end)
         [] op.opcode = "#" ->
              before_parent
              \o (IF parent.t = "array"
                  THEN mp_encode_array(parent.v - op.count)
                  ELSE mp_encode_map(parent.v - 1))
              \o bytes(pos, field.point)
              \o bytes(field.point + field.point_size, end)
         [] OTHER ->
              bytes(1, field.point) \o op_store(op)
              \o bytes(field.point + field.point_size, end)

\* update_field_sizeof and update_field_store of the fields of the model.
update_field_sizeof(field) ==
    CASE field.type = "UPDATE_NOP" -> Len(field.data)
      [] field.type = "UPDATE_SCALAR" -> field.op.new_field_len
      [] OTHER -> update_bar_sizeof(field)

update_field_store(field) ==
    CASE field.type = "UPDATE_NOP" -> field.data
      [] field.type = "UPDATE_SCALAR" -> op_store(field.op)
      [] OTHER -> update_bar_store(field)

\* update_do_ops on one field, from operation i on: the first failure ends
\* it; r is what do_op has returned for operation i.
RECURSIVE field_do_ops(_, _, _), field_op_done(_, _, _)
field_do_ops(ops, i, field) ==
    IF i > Len(ops) THEN [rc |-> 0, err |-> "none", field |-> field,
                          tried |-> Len(ops)]
    ELSE field_op_done(ops, i, update_op_do_field(ops[i], field))

field_op_done(ops, i, r) ==
    IF r.rc # 0 THEN [rc |-> -1, err |-> r.err, field |-> r.ret, tried |-> i]
    ELSE field_do_ops(ops, i + 1, r.ret)

\* update_finish of the call u once update_do_ops has returned r: the field
\* is sized and stored.
field_finish(u, r) ==
    [u EXCEPT !.returned = TRUE,
              !.rc = r.rc,
              !.err = r.err,
              !.tried = r.tried,
              !.field = r.field,
              !.tuple_len = IF r.rc = 0 THEN update_field_sizeof(r.field)
                                        ELSE 0,
              !.stored = IF r.rc = 0 THEN update_field_store(r.field)
                                     ELSE <<>>]

\* The fields of the model: the number 5, and the array [[5], {'a': 7}]
\* with each of its three headers in the shortest or in a wider encoding.
WideHeader(wide) == IF wide THEN mp_sizeof_array(3) - mp_sizeof_array(0) ELSE 0

FieldData ==
    {mp_encode_uint(5)}
    \cup {EncodeArray(<<EncodeArray(<<mp_encode_uint(5)>>, WideHeader(w1)),
                        EncodeMap(<<mp_encode_str(<<1>>), mp_encode_uint(7)>>,
                                  WideHeader(w2))>>,
                      WideHeader(w0)) : w0, w1, w2 \in BOOLEAN}

\* The paths of the model: [1], [2], [3], [4], [1][1], [1][2], [2].a,
\* [2].b, [1].a and [2][1] with index base 1.
FieldPaths ==
    {<<TokenNum(n)>> : n \in 0..3}
    \cup {<<TokenNum(0), TokenNum(n)>> : n \in 0..1}
    \cup {<<TokenNum(1), TokenStr(<<c>>)>> : c \in 1..2}
    \cup {<<TokenNum(0), TokenStr(<<1>>)>>, <<TokenNum(1), TokenNum(0)>>}

FieldOps ==
    LET none == ArithArg(AT_INT, 0) IN
    {BarOp("!", path, mp_encode_uint(9), 0, none) : path \in FieldPaths}
    \cup {BarOp("=", path, mp_encode_str(<<3>>), 0, none) :
             path \in FieldPaths \cup {<<>>}}
    \cup {BarOp("#", path, <<>>, count, none) :
             path \in FieldPaths, count \in 1..2}
    \cup {BarOp("+", path, <<>>, 0, ArithArg(AT_INT, 1)) :
             path \in FieldPaths \cup {<<>>}}

FieldCalls ==
    {[call |-> "field", data |-> data, ops |-> ops, returned |-> FALSE,
      rc |-> 0, err |-> "none", tried |-> 0, field |-> NopField(data),
      tuple_len |-> 0, stored |-> <<>>] :
        data \in FieldData,
        ops \in UNION {[1..n -> FieldOps] : n \in 0..MaxOps}}

(* -------------------------------------------------------- replication.cc *)

Appliers == 1..MaxAppliers

Replicas == 1..MaxReplicas

Uuids == 1..MaxUuid

uuid_nil == 0

REPLICA_ID_NIL == 0

\* A null applier or replica pointer.
NoApplier == 0

NoReplica == 0

REPLICATION_CONNECT_QUORUM_ALL == MaxCount + 1

APPLIER_OFF == "OFF"

APPLIER_CONNECT == "CONNECT"

APPLIER_CONNECTED == "CONNECTED"

APPLIER_LOADING == "LOADING"

APPLIER_DISCONNECTED == "DISCONNECTED"

APPLIER_FOLLOW == "FOLLOW"

APPLIER_STOPPED == "STOPPED"

APPLIER_SYNC == "SYNC"

APPLIER_INITIAL_JOIN == "INITIAL_JOIN"

APPLIER_JOINED == "JOINED"

\* A struct applier that is not allocated: its state, the UUID of its
\* master, the on_state trigger list from its head on, whether its reader
\* fiber exists, whether that fiber is inside applier_pause, and whether a
\* trigger has cancelled the fiber ("cancelled") or raised ("raised").
NoApplierObject ==
    [exists |-> FALSE, state |-> APPLIER_OFF, uuid |-> uuid_nil,
     on_state |-> <<>>, reader |-> FALSE, paused |-> FALSE,
     failed |-> "none"]

\* A struct replica that is not allocated; in_anon names the list the
\* replica is linked in: "none", "replicaset" for replicaset.anon, "local"
\* for anon_replicas of replicaset_update.
NoReplicaObject ==
    [exists |-> FALSE, id |-> REPLICA_ID_NIL, uuid |-> uuid_nil,
     applier |-> NoApplier, applier_sync_state |-> APPLIER_DISCONNECTED,
     in_hash |-> FALSE, in_anon |-> "none", in_uniq |-> FALSE]

\* The frame of a replicaset_connect call: no call is under way.
NoConnect ==
    [pc |-> "idle", appliers |-> <<>>, connect_quorum |-> FALSE,
     connected |-> 0, failed |-> 0, signalled |-> FALSE, i |-> 0,
     triggers |-> "none", rc |-> 0, returned |-> FALSE, calls |-> 0,
     left |-> "none", updated |-> FALSE, quorum |-> 0, err |-> "none",
     update_failed |-> FALSE, followed |-> FALSE,
     was |-> [connected |-> 0, failed |-> 0]]

\* The frame of a replicaset_sync call.
NoSync ==
    [pc |-> "idle", quorum |-> 0, signalled |-> FALSE, left |-> "none",
     returned |-> FALSE, was |-> [synced |-> 0, connected |-> 0, loading |-> 0]]

\* replication_init: the replica set with no replica and no applier.
replication_init ==
    [applier |-> [a \in Appliers |-> NoApplierObject],
     replica |-> [x \in Replicas |-> NoReplicaObject],
     total |-> 0, connected |-> 0, loading |-> 0, synced |-> 0,
     is_joining |-> FALSE, is_orphan |-> FALSE,
     replication_connect_quorum |-> REPLICATION_CONNECT_QUORUM_ALL,
     conn |-> NoConnect, sync |-> NoSync,
     dangling_run |-> FALSE, events |-> 0]

MIN(a, b) == IF a < b THEN a ELSE b

\* replicaset_quorum
replicaset_quorum(r) == MIN(r.replication_connect_quorum, r.total)

\* box_set_orphan
box_set_orphan(r, orphan) == [r EXCEPT !.is_orphan = orphan]

\* replicaset_check_quorum
replicaset_check_quorum(r) ==
    IF r.synced >= replicaset_quorum(r) THEN box_set_orphan(r, FALSE) ELSE r

\* The struct replica that malloc returns: the first one not allocated.
NewReplica(r) ==
    CHOOSE x \in Replicas :
        /\ ~r.replica[x].exists
        /\ \A y \in Replicas : y < x => r.replica[y].exists

FreeReplicas(r) == Cardinality({x \in Replicas : ~r.replica[x].exists})

\* replica_new, for the replica NewReplica(r)
replica_new(r) ==
    [r EXCEPT !.replica[NewReplica(r)] =
                  [NoReplicaObject EXCEPT !.exists = TRUE]]

\* replica_delete
replica_delete(r, x) == [r EXCEPT !.replica[x] = NoReplicaObject]

\* The trigger that is the on_applier_state member of the replica, and
\* the trigger i of the array of a replicaset_connect call.
ReplicaTrigger(x) == <<"replica", x>>

ConnectTrigger(i) == <<"connect", i>>

\* trigger_clear: the trigger is in no list afterwards.
on_state_clear(r, trigger) ==
    [r EXCEPT !.applier =
        [a \in Appliers |-> [r.applier[a] EXCEPT
                                !.on_state = Remove(@, trigger)]]]

\* trigger_add to applier->on_state: at the head of the list.
on_state_add(r, a, trigger) ==
    [r EXCEPT !.applier[a].on_state = <<trigger>> \o @]

\* replica_set_applier
replica_set_applier(r, x, a) ==
    on_state_add([r EXCEPT !.replica[x].applier = a], a, ReplicaTrigger(x))

\* replica_clear_applier
replica_clear_applier(r, x) ==
    on_state_clear([r EXCEPT !.replica[x].applier = NoApplier],
                   ReplicaTrigger(x))

\* replica_hash_search(&replicaset.hash, replica) and replica_by_uuid: the
\* replica of the hash with the UUID, or NULL.
replica_by_uuid(r, uuid) ==
    IF \E x \in Replicas : r.replica[x].in_hash /\ r.replica[x].uuid = uuid
    THEN CHOOSE x \in Replicas :
             r.replica[x].in_hash /\ r.replica[x].uuid = uuid
    ELSE NoReplica

\* replica_is_orphan of a replica whose relay does not follow.
replica_is_orphan(r, x) ==
    r.replica[x].id = REPLICA_ID_NIL /\ r.replica[x].applier = NoApplier

\* replica_on_applier_sync
replica_on_applier_sync(r, x) ==
    replicaset_check_quorum(
        [r EXCEPT !.replica[x].applier_sync_state = APPLIER_SYNC,
                  !.synced = @ + 1])

\* replica_on_applier_connect once the replica has the UUID and the state
\* of a connected one: orig is the replica of the hash with that UUID.
on_applier_connect_found(r, x, a, orig) ==
    IF orig # NoReplica /\ r.replica[orig].applier # NoApplier
    THEN Err("FiberIsCancelled", r)
    ELSE IF orig # NoReplica
    THEN Ok(replica_delete(
                replica_clear_applier(
                    replica_set_applier(
                        [r EXCEPT !.replica[x].in_anon = "none",
                                  !.replica[orig].applier_sync_state =
                                      r.replica[x].applier_sync_state],
                        orig, a),
                    x),
                x))
    ELSE Ok([r EXCEPT !.replica[x].in_anon = "none",
                      !.replica[x].in_hash = TRUE])

replica_on_applier_connect(r, x) ==
    on_applier_connect_found(
        [r EXCEPT !.replica[x].uuid = r.applier[r.replica[x].applier].uuid,
                  !.replica[x].applier_sync_state = APPLIER_CONNECTED,
                  !.connected = @ + 1],
        x, r.replica[x].applier,
        replica_by_uuid(r, r.applier[r.replica[x].applier].uuid))

\* replica_on_applier_reconnect from the test of the UUID on, where the
\* master has a new UUID: orig is the replica that has it.
on_applier_reconnect_to(r, x, a, orig) ==
    IF r.replica[orig].applier # NoApplier
    THEN Err("ER_CFG", r)
    ELSE Ok([replica_clear_applier(replica_set_applier(r, orig, a), x)
                EXCEPT !.replica[x].applier_sync_state = APPLIER_DISCONNECTED,
                       !.replica[orig].applier_sync_state = APPLIER_CONNECTED,
                       !.connected = @ + 1])

\* The replica with the new UUID: the one of the hash, or a new one that is
\* put into the hash.
on_applier_reconnect_orig(r, x, a) ==
    IF replica_by_uuid(r, r.applier[a].uuid) # NoReplica
    THEN on_applier_reconnect_to(r, x, a,
                                 replica_by_uuid(r, r.applier[a].uuid))
    ELSE on_applier_reconnect_to(
             [replica_new(r) EXCEPT
                 !.replica[NewReplica(r)].uuid = r.applier[a].uuid,
                 !.replica[NewReplica(r)].in_hash = TRUE],
             x, a, NewReplica(r))

\* replica_on_applier_reconnect from the test of the UUID on.
on_applier_reconnect_uuid(r, x, a) ==
    IF r.replica[x].uuid # r.applier[a].uuid
    THEN on_applier_reconnect_orig(r, x, a)
    ELSE Ok([r EXCEPT !.replica[x].applier_sync_state = APPLIER_CONNECTED,
                      !.connected = @ + 1])

replica_on_applier_reconnect(r, x) ==
    on_applier_reconnect_uuid(
        IF r.replica[x].applier_sync_state = APPLIER_LOADING
        THEN [r EXCEPT !.loading = @ - 1] ELSE r,
        x, r.replica[x].applier)

\* replica_on_applier_disconnect
replica_on_applier_disconnect(r, x) ==
    LET was == r.replica[x].applier_sync_state
        now == r.applier[r.replica[x].applier].state
    IN [r EXCEPT
           !.synced = IF was = APPLIER_SYNC THEN @ - 1 ELSE @,
           !.connected = IF was \in {APPLIER_SYNC, APPLIER_CONNECTED}
                         THEN @ - 1 ELSE @,
           !.loading = (IF was = APPLIER_LOADING THEN @ - 1 ELSE @)
                       + (IF now = APPLIER_LOADING THEN 1 ELSE 0),
           !.replica[x].applier_sync_state = now]

\* fiber_cond_signal(&replicaset.applier.cond): the fiber that waits in
\* replicaset_sync is woken.
applier_cond_signal(r) ==
    IF r.sync.pc = "wait" THEN [r EXCEPT !.sync.signalled = TRUE] ELSE r

\* The switch of replica_on_applier_state_f.
on_applier_state_switch(r, x, state) ==
    CASE state = APPLIER_INITIAL_JOIN -> Ok([r EXCEPT !.is_joining = TRUE])
      [] state = APPLIER_JOINED -> Ok([r EXCEPT !.is_joining = FALSE])
      [] state = APPLIER_CONNECTED ->
             IF r.replica[x].uuid = uuid_nil
             THEN replica_on_applier_connect(r, x)
             ELSE replica_on_applier_reconnect(r, x)
      [] state \in {APPLIER_LOADING, APPLIER_DISCONNECTED, APPLIER_STOPPED} ->
             Ok(replica_on_applier_disconnect(r, x))
      [] state \in {APPLIER_FOLLOW, APPLIER_OFF} ->
             Ok(replica_on_applier_sync(r, x))
      [] OTHER -> Ok(r)

\* replica_on_applier_state_f once the switch has returned res: an
\* exception returns -1 before the condition is signalled.
on_applier_state_done(res) ==
    IF res.rc # 0 THEN res ELSE Ok(applier_cond_signal(res.ret))

replica_on_applier_state_f(r, x) ==
    on_applier_state_done(
        on_applier_state_switch(r, x, r.applier[r.replica[x].applier].state))

\* fiber_cond_signal(&state->wakeup): the fiber that waits in
\* replicaset_connect is woken.
connect_cond_signal(r) ==
    IF r.conn.pc = "wait" THEN [r EXCEPT !.conn.signalled = TRUE] ELSE r

\* applier_on_connect_f for trigger i of the array, called for applier a:
\* a trigger of a frame that has been left is memory of a dead frame.
applier_on_connect_f(r, i, a) ==
    IF r.conn.triggers # "live" THEN [r EXCEPT !.dangling_run = TRUE]
    ELSE CASE r.applier[a].state \in {APPLIER_OFF, APPLIER_STOPPED} ->
                  [connect_cond_signal([r EXCEPT !.conn.failed = @ + 1])
                      EXCEPT !.applier[a].paused = TRUE]
           [] r.applier[a].state = APPLIER_CONNECTED ->
                  [connect_cond_signal([r EXCEPT !.conn.connected = @ + 1])
                      EXCEPT !.applier[a].paused = TRUE]
           [] OTHER -> r

\* trigger_run(&applier->on_state, applier) from entry k of the list as it
\* was at the start: a trigger that has left the list meanwhile is not
\* run, the first one that fails ends the run, and so does one that parks
\* the fiber in applier_pause.
RECURSIVE on_state_run(_, _, _, _), on_state_next(_, _, _, _)
on_state_run(r, a, list, k) ==
    IF k > Len(list) \/ r.applier[a].paused THEN r
    ELSE IF list[k] \notin Range(r.applier[a].on_state)
    THEN on_state_run(r, a, list, k + 1)
    ELSE IF list[k][1] = "connect"
    THEN on_state_run(applier_on_connect_f(r, list[k][2], a), a, list, k + 1)
    ELSE on_state_next(replica_on_applier_state_f(r, list[k][2]), a, list, k)

on_state_next(res, a, list, k) ==
    IF res.rc # 0
    THEN [res.ret EXCEPT !.applier[a].failed =
                             IF res.err = "FiberIsCancelled" THEN "cancelled"
                                                             ELSE "raised"]
    ELSE on_state_run(res.ret, a, list, k + 1)

\* applier_set_state
applier_set_state(r, a, state) ==
    on_state_run([r EXCEPT !.applier[a].state = state,
                           !.applier[a].failed = "none"], a,
                 r.applier[a].on_state, 1)

\* applier_start: the reader fiber is created.
applier_start(r, a) == [r EXCEPT !.applier[a].reader = TRUE]

\* applier_stop: the reader fiber, if there is one, is cancelled and
\* joined, and the applier is OFF.
applier_stop(r, a) ==
    IF ~r.applier[a].reader THEN r
    ELSE applier_set_state([r EXCEPT !.applier[a].reader = FALSE,
                                     !.applier[a].paused = FALSE],
                           a, APPLIER_OFF)

\* applier_resume
applier_resume(r, a) == [r EXCEPT !.applier[a].paused = FALSE]

\* applier_delete
applier_delete(r, a) == [r EXCEPT !.applier[a] = NoApplierObject]

\* The replica of the uniq hash of replicaset_update with the UUID, or NULL.
uniq_search(r, uuid) ==
    IF \E x \in Replicas : r.replica[x].in_uniq /\ r.replica[x].uuid = uuid
    THEN CHOOSE x \in Replicas :
             r.replica[x].in_uniq /\ r.replica[x].uuid = uuid
    ELSE NoReplica

\* uniq_guard of replicaset_update: every replica that is left in uniq is
\* taken out of it, parted from its applier and deleted.
RECURSIVE uniq_guard(_)
uniq_guard(r) ==
    IF \A x \in Replicas : ~r.replica[x].in_uniq THEN r
    ELSE LET x == CHOOSE y \in Replicas : r.replica[y].in_uniq IN
         uniq_guard(replica_delete(replica_clear_applier(r, x), x))

\* The first loop of replicaset_update from applier i on: a replica is
\* made for each applier, and two connected appliers with one UUID raise.
RECURSIVE update_check(_, _, _), update_check_new(_, _, _, _)
update_check(r, appliers, i) ==
    IF i > Len(appliers) THEN Ok(r)
    ELSE update_check_new(
             replica_set_applier(replica_new(r), NewReplica(r), appliers[i]),
             appliers, i, NewReplica(r))

update_check_new(r, appliers, i, x) ==
    IF r.applier[appliers[i]].state # APPLIER_CONNECTED
    THEN update_check([r EXCEPT !.replica[x].in_anon = "local"],
                      appliers, i + 1)
    ELSE IF uniq_search(r, r.applier[appliers[i]].uuid) # NoReplica
    THEN Err("ER_CFG", uniq_guard(replica_delete(replica_clear_applier(r, x),
                                                 x)))
    ELSE update_check([r EXCEPT !.replica[x].uuid =
                                    r.applier[appliers[i]].uuid,
                                !.replica[x].in_uniq = TRUE],
                      appliers, i + 1)

\* One replica of the hash with an applier is parted from it and the
\* applier stopped and deleted.
prune_hash_one(r, x, a) ==
    applier_delete(
        applier_stop([replica_clear_applier(r, x) EXCEPT
                         !.replica[x].applier_sync_state =
                             APPLIER_DISCONNECTED],
                     a),
        a)

\* One replica of replicaset.anon is deleted and its applier stopped and
\* deleted.
prune_anon_one(r, x, a) ==
    applier_delete(
        applier_stop(replica_delete(replica_clear_applier(r, x), x), a), a)

\* "Prune old appliers" of replicaset_update.
RECURSIVE update_prune(_)
update_prune(r) ==
    IF \E x \in Replicas : r.replica[x].in_hash
                           /\ r.replica[x].applier # NoApplier
    THEN LET x == CHOOSE y \in Replicas :
                      r.replica[y].in_hash /\ r.replica[y].applier # NoApplier
         IN update_prune(prune_hash_one(r, x, r.replica[x].applier))
    ELSE IF \E x \in Replicas : r.replica[x].in_anon = "replicaset"
    THEN LET x == CHOOSE y \in Replicas : r.replica[y].in_anon = "replicaset"
         IN update_prune(prune_anon_one(r, x, r.replica[x].applier))
    ELSE r

\* One replica of uniq is saved: the replica of the hash with its UUID
\* takes the applier over, or the replica itself enters the hash.
update_save_one(r, x, orig) ==
    IF orig # NoReplica
    THEN [replica_delete(
              replica_clear_applier(
                  replica_set_applier(r, orig, r.replica[x].applier), x), x)
             EXCEPT !.replica[orig].applier_sync_state = APPLIER_CONNECTED,
                    !.connected = @ + 1]
    ELSE [r EXCEPT !.replica[x].in_uniq = FALSE,
                   !.replica[x].in_hash = TRUE,
                   !.replica[x].applier_sync_state = APPLIER_CONNECTED,
                   !.connected = @ + 1]

\* "Save new appliers" of replicaset_update, the loop over uniq.
RECURSIVE update_save(_)
update_save(r) ==
    IF \A x \in Replicas : ~r.replica[x].in_uniq THEN r
    ELSE LET x == CHOOSE y \in Replicas : r.replica[y].in_uniq IN
         update_save(update_save_one(r, x,
                                     replica_by_uuid(r, r.replica[x].uuid)))

\* The end of replicaset_update: anon_replicas becomes replicaset.anon and
\* the orphans leave the hash.
update_finish_anon(r) ==
    [r EXCEPT !.replica =
        [x \in Replicas |->
            IF r.replica[x].in_hash /\ replica_is_orphan(r, x)
            THEN NoReplicaObject
            ELSE IF r.replica[x].in_anon = "local"
            THEN [r.replica[x] EXCEPT !.in_anon = "replicaset"]
            ELSE r.replica[x]]]

\* The function is left with replicas in anon_replicas: the head of the
\* list was in the frame, the replicas are linked to each other.
anon_replicas_left(r) ==
    [r EXCEPT !.replica =
        [x \in Replicas |->
            IF r.replica[x].in_anon = "local"
            THEN [r.replica[x] EXCEPT !.in_anon = "left"]
            ELSE r.replica[x]]]

\* replicaset_update once the check for a duplicate UUID has returned res.
update_apply(res, count) ==
    IF res.rc # 0 THEN Err(res.err, anon_replicas_left(res.ret))
    ELSE Ok(update_finish_anon(
                update_save([update_prune(res.ret) EXCEPT
                                !.total = count, !.connected = 0,
                                !.loading = 0, !.synced = 0])))

replicaset_update(r, appliers) ==
    update_apply(update_check(r, appliers, 1), Len(appliers))

\* The appliers that box.cfg makes for a configuration of n sources: the
\* first n that are not allocated.
RECURSIVE FreshAppliers(_, _, _)
FreshAppliers(r, n, from) ==
    IF n = 0 \/ from > MaxAppliers THEN <<>>
    ELSE IF r.applier[from].exists THEN FreshAppliers(r, n, from + 1)
    ELSE <<from>> \o FreshAppliers(r, n - 1, from + 1)

FreeAppliers(r) == Cardinality({a \in Appliers : ~r.applier[a].exists})

\* The first loop of replicaset_connect from applier i on: the trigger is
\* added and the applier started.
RECURSIVE connect_start(_, _)
connect_start(r, i) ==
    IF i > Len(r.conn.appliers) THEN r
    ELSE connect_start(
             applier_start(on_state_add(r, r.conn.appliers[i],
                                        ConnectTrigger(i)),
                           r.conn.appliers[i]),
             i + 1)

\* replicaset_connect behind the loop that waits, with a critical
\* connection taken for one that is not.
connect_waited_strict(r, left) ==
    IF /\ r.conn.connected < Len(r.conn.appliers)
       /\ r.conn.connected < r.conn.quorum
    THEN [r EXCEPT !.conn.pc = "error", !.conn.i = 1, !.conn.left = left,
                   !.conn.err = "ER_CFG",
                   !.conn.was = [connected |-> r.conn.connected,
                                 failed |-> r.conn.failed]]
    ELSE [r EXCEPT !.conn.pc = "clear", !.conn.i = 1, !.conn.left = left,
                   !.conn.was = [connected |-> r.conn.connected,
                                 failed |-> r.conn.failed]]

\* replicaset_connect behind the loop that waits: a critical connection
\* that has not its quorum goes to the error label, else the triggers are
\* cleared first; left is why the loop was left and was holds the counters
\* of the state at that moment.
connect_waited(r, left) ==
    IF /\ r.conn.connected < Len(r.conn.appliers)
       /\ r.conn.connect_quorum
       /\ r.conn.connected < r.conn.quorum
    THEN [r EXCEPT !.conn.pc = "error", !.conn.i = 1, !.conn.left = left,
                   !.conn.err = "ER_CFG",
                   !.conn.was = [connected |-> r.conn.connected,
                                 failed |-> r.conn.failed]]
    ELSE [r EXCEPT !.conn.pc = "clear", !.conn.i = 1, !.conn.left = left,
                   !.conn.was = [connected |-> r.conn.connected,
                                 failed |-> r.conn.failed]]

\* The head of the loop that waits: the function parks in
\* fiber_cond_wait_timeout or leaves the loop.
connect_loop(r) ==
    IF r.conn.connected >= Len(r.conn.appliers) THEN connect_waited(r, "all")
    ELSE IF r.conn.connected >= r.conn.quorum /\ ~r.conn.connect_quorum
    THEN connect_waited(r, "quorum")
    ELSE [r EXCEPT !.conn.pc = "wait", !.conn.signalled = FALSE]

\* The loop from the return of fiber_cond_wait_timeout on.
connect_woken(r, expired) ==
    IF expired THEN connect_waited(r, "timeout")
    ELSE IF Len(r.conn.appliers) - r.conn.failed < r.conn.quorum
    THEN connect_waited(r, "failed")
    ELSE connect_loop(r)

\* The function returns or raises: its frame, with the triggers, is gone.
connect_return(r, rc) ==
    [r EXCEPT !.conn.pc = "done", !.conn.rc = rc, !.conn.returned = TRUE,
              !.conn.triggers = "dead"]

\* replicaset_connect up to the first wait.
replicaset_connect(r, count, connect_quorum) ==
    IF count = 0
    THEN connect_return([replicaset_update(r, <<>>).ret EXCEPT
                            !.conn.updated = TRUE], 0)
    ELSE connect_loop(
             connect_start(
                 [r EXCEPT !.is_orphan = IF connect_quorum THEN @ ELSE TRUE,
                           !.conn.triggers = "live",
                           !.conn.connect_quorum = connect_quorum,
                           !.conn.quorum =
                               MIN(count, r.replication_connect_quorum)],
                 1))

\* One round of the loop that clears the triggers: an applier that has not
\* connected is stopped.
connect_clear_one(r, a) ==
    IF r.applier[a].state # APPLIER_CONNECTED THEN applier_stop(r, a) ELSE r

\* The loop that clears the triggers, with the trigger left on the list.
connect_clear_kept(r) ==
    IF r.conn.i > Len(r.conn.appliers) THEN [r EXCEPT !.conn.pc = "update"]
    ELSE connect_clear_one([r EXCEPT !.conn.i = @ + 1],
                           r.conn.appliers[r.conn.i])

connect_clear(r) ==
    IF r.conn.i > Len(r.conn.appliers) THEN [r EXCEPT !.conn.pc = "update"]
    ELSE connect_clear_one(
             [on_state_clear(r, ConnectTrigger(r.conn.i)) EXCEPT
                 !.conn.i = @ + 1],
             r.conn.appliers[r.conn.i])

\* replicaset_connect once replicaset_update has returned res.
connect_updated(res) ==
    IF res.rc # 0
    THEN [res.ret EXCEPT !.conn.pc = "error", !.conn.i = 1,
                         !.conn.err = res.err, !.conn.update_failed = TRUE]
    ELSE connect_return([res.ret EXCEPT !.conn.updated = TRUE], 0)

\* The caller destroys the appliers of a configuration that has failed.
RECURSIVE appliers_destroy(_, _)
appliers_destroy(r, i) ==
    IF i > Len(r.conn.appliers) THEN r
    ELSE appliers_destroy(applier_delete(r, r.conn.appliers[i]), i + 1)

\* One round of the loop behind the error label; behind the loop the
\* diagnostic is raised.
connect_error(r) ==
    IF r.conn.i > Len(r.conn.appliers)
    THEN appliers_destroy(connect_return(r, -1), 1)
    ELSE applier_stop([on_state_clear(r, ConnectTrigger(r.conn.i)) EXCEPT
                          !.conn.i = @ + 1],
                      r.conn.appliers[r.conn.i])

\* replicaset_follow
replicaset_follow(r) ==
    [r EXCEPT !.applier =
        [a \in Appliers |->
            IF \E x \in Replicas : r.replica[x].in_hash
                                   /\ r.replica[x].applier = a
            THEN [r.applier[a] EXCEPT !.paused = FALSE]
            ELSE IF \E x \in Replicas : r.replica[x].in_anon = "replicaset"
                                        /\ r.replica[x].applier = a
            THEN [r.applier[a] EXCEPT !.reader = TRUE]
            ELSE r.applier[a]]]

\* replicaset_sync behind its loop: the instance is an orphan if the
\* quorum is not synchronized.
sync_return(r, left) ==
    [box_set_orphan(r, r.synced < r.sync.quorum) EXCEPT
        !.sync.pc = "done", !.sync.returned = TRUE, !.sync.left = left,
        !.sync.was = [synced |-> r.synced, connected |-> r.connected,
                      loading |-> r.loading]]

\* The head of the loop of replicaset_sync, which waits on whatever the
\* numbers of connected and loading appliers are.
sync_loop_blind(r) ==
    IF r.synced < r.sync.quorum
    THEN [r EXCEPT !.sync.pc = "wait", !.sync.signalled = FALSE]
    ELSE sync_return(r, "synced")

\* The head of the loop of replicaset_sync.
sync_loop(r) ==
    IF r.synced < r.sync.quorum /\ r.connected + r.loading >= r.sync.quorum
    THEN [r EXCEPT !.sync.pc = "wait", !.sync.signalled = FALSE]
    ELSE sync_return(r, IF r.synced >= r.sync.quorum THEN "synced"
                                                     ELSE "lost")

\* replicaset_sync up to the first wait.
replicaset_sync(r) ==
    IF replicaset_quorum(r) = 0
    THEN [box_set_orphan(r, FALSE) EXCEPT
             !.sync = [NoSync EXCEPT !.pc = "done", !.returned = TRUE,
                                     !.left = "zero"]]
    ELSE sync_loop([r EXCEPT !.sync = [NoSync EXCEPT
                                          !.quorum = replicaset_quorum(r)]])

\* The loop from the return of fiber_cond_wait_deadline on.
sync_woken(r, expired) ==
    IF expired THEN sync_return(r, "deadline") ELSE sync_loop(r)

(* --------------------------------------------------------------- actions *)

\* The running fiber is in user code: the scheduler, or a fiber in its body.
Running == cur = sched \/ pc[cur] = "run"

\* A fiber object that holds a fiber (it has a fid and a function).
Exists(f) == fid[f] /= 0

\* The running fiber calls fiber_new while fewer than limit fibers are alive.
New(limit) ==
    /\ Running
    /\ n_new < MaxNew
    /\ Cardinality(alive) < limit
    /\ dead /= <<>> \/ \E g \in Fibers : pc[g] = "none"
    /\ Commit(fiber_new(St))

\* The running fiber calls fiber_new_ex with an attribute that asks for a
\* custom stack size or with one that does not; the mempool has an object left
\* when one is needed.
NewEx(limit, custom) ==
    /\ Running
    /\ n_new < MaxNew
    /\ Cardinality(alive) < limit
    /\ (~custom /\ dead /= <<>>) \/ \E g \in Fibers : pc[g] = "none"
    /\ Commit(fiber_new_ex(St, custom))

\* The number of fiber_new calls after which cord->max_fid has wrapped.
MaxNewFid == FidModulus - FIBER_ID_MAX_RESERVED + 1

\* fiber_new in a cord that lives long enough for max_fid to wrap.
NewFid ==
    /\ Running
    /\ n_new < MaxNewFid
    /\ Cardinality(alive) < MaxAlive
    /\ dead /= <<>> \/ \E g \in Fibers : pc[g] = "none"
    /\ Commit(fiber_new(St))

\* The running fiber calls fiber_start(f) on a fiber that has not run yet.
Start(f) ==
    /\ Running
    /\ pc[f] = "new"
    /\ FIBER_IS_READY \notin flags[cur]
    /\ FIBER_IS_READY \notin flags[f]
    /\ ~state_linked(St, f)
    /\ Commit(fiber_call(St, f))

\* fiber_start(f) by a caller that has a wakeup of its own pending: the
\* asserts of fiber_call are compiled out, and the call proceeds.
StartWoken(f) ==
    /\ Running
    /\ pc[f] = "new"
    /\ FIBER_IS_READY \notin flags[f]
    /\ ~state_linked(St, f)
    /\ Commit(fiber_call(St, f))

\* The same call, with a note of the caller in the fiber it starts.
StartNote(f) ==
    /\ Running
    /\ pc[f] = "new"
    /\ FIBER_IS_READY \notin flags[cur]
    /\ FIBER_IS_READY \notin flags[f]
    /\ ~state_linked(St, f)
    /\ Commit([fiber_call(St, f) EXCEPT !.started_by[f] = cur,
                                        !.first_run[f] = TRUE])

\* The running fiber (or a watcher callback of the loop, fiber_schedule_cb)
\* calls fiber_wakeup(f).
Wakeup(f) ==
    /\ Running
    /\ Exists(f)
    /\ Commit(fiber_wakeup(St, f))

\* The same call, with a note of the fiber when it has the READY or the DEAD
\* flag at the call.
WakeupNote(f) ==
    /\ Running
    /\ Exists(f)
    /\ Commit([fiber_wakeup(St, f) EXCEPT
                  !.noop_wakeup =
                      IF flags[f] \cap {FIBER_IS_READY, FIBER_IS_DEAD} /= {}
                      THEN f ELSE NoFiber])

\* The running fiber calls fiber_cancel(f).
Cancel(f) ==
    /\ Running
    /\ Exists(f)
    /\ Commit(fiber_cancel(St, f))

\* A fiber calls fiber_yield() in its body.
Yield ==
    /\ cur /= sched
    /\ pc[cur] = "run"
    /\ Commit(fiber_yield(St))

\* The loop invokes the fed wakeup_event.
Dispatch ==
    /\ cur = sched
    /\ wakeup_event
    /\ Commit(fiber_schedule_wakeup(St))

\* The body of the running fiber returns ret (non-zero: with an error set).
Return(ret) ==
    /\ cur /= sched
    /\ pc[cur] = "run"
    /\ Commit(fiber_loop(St, ret))

\* The running fiber calls fiber_join(f).  A fiber is joined by one fiber; the
\* scheduler joins only a fiber that is dead; the joiner's state link is free
\* when it is added to the wake list.
Join(f) ==
    /\ Running
    /\ Exists(f)
    /\ f /= cur
    /\ FIBER_IS_JOINABLE \in flags[f]
    /\ \A g \in AllFibers : join_arg[g] /= f
    /\ fiber_is_dead(St, f) \/ (cur /= sched /\ FIBER_IS_READY \notin flags[cur])
    /\ Commit(fiber_join(St, f))

\* A fiber waiting in fiber_join gets control back from its fiber_yield.
JoinResume ==
    /\ cur /= sched
    /\ pc[cur] = "join"
    /\ Commit(fiber_join(St, join_arg[cur]))

\* A fiber calls fiber_sleep(delay), with delay = 0 or not.
Sleep(zero) ==
    /\ cur /= sched
    /\ pc[cur] = "run"
    /\ Commit(fiber_sleep(St, zero))

\* A fiber inside fiber_sleep gets control back.
SleepResume ==
    /\ cur /= sched
    /\ pc[cur] = "sleep"
    /\ Commit(fiber_sleep_return(St))

\* A fiber calls fiber_yield_timeout(delay).
YieldTimeout ==
    /\ cur /= sched
    /\ pc[cur] = "run"
    /\ Commit(fiber_yield_timeout(St))

\* A fiber inside fiber_yield_timeout gets control back.
YieldTimeoutResume ==
    /\ cur /= sched
    /\ pc[cur] = "ytimeout"
    /\ Commit(fiber_yield_timeout_return(St))

\* The loop invokes the timer callback of a sleeping fiber.
TimerFire(f) ==
    /\ cur = sched
    /\ timer[f]
    /\ Commit(fiber_schedule_timeout(St, f))

\* A fiber calls testcancel.
TestCancel ==
    /\ cur /= sched
    /\ pc[cur] = "run"
    /\ Commit(luaL_testcancel(St))

\* A fiber calls fiber_set_cancellable(yesno).
SetCancellable(yesno) ==
    /\ cur /= sched
    /\ pc[cur] = "run"
    /\ Commit(fiber_set_cancellable(St, yesno))

\* The running fiber calls fiber_set_joinable(f, yesno) on a fiber nobody is
\* joining.
SetJoinable(f, yesno) ==
    /\ Running
    /\ Exists(f)
    /\ \A g \in AllFibers : join_arg[g] /= f
    /\ Commit(fiber_set_joinable(St, f, yesno))

\* A fiber calls fiber.sleep(delay) of the Lua library.
LuaSleep(zero) ==
    /\ cur /= sched
    /\ pc[cur] = "run"
    /\ Commit(fiber_sleep(St, zero))

\* A fiber inside fiber.sleep gets control back.
LuaSleepResume ==
    /\ cur /= sched
    /\ pc[cur] = "sleep"
    /\ Commit(lbox_fiber_sleep_return(St))

\* fiber_wakeup(f) on a fiber that is not suspended in cord_cojoin (a wakeup
\* of that one is the "severe BUG" of cord_cojoin's comment).
WakeupAwake(f) ==
    /\ pc[f] /= "cojoin_wait"
    /\ Wakeup(f)

\* The running fiber calls fiber.wakeup(f) of the Lua library.
LuaWakeup(f) ==
    /\ Running
    /\ Exists(f)
    /\ Commit(lbox_fiber_wakeup(St, f))

\* A fiber that has no wakeup of its own pending calls cord_cojoin on the cord,
\* which nobody has joined yet.
CojoinCas ==
    /\ cur /= sched
    /\ pc[cur] = "run"
    /\ FIBER_IS_READY \notin flags[cur]
    /\ ctx.fiber = NoFiber
    /\ Commit(cord_cojoin_cas(St))

\* The joiner goes on after its compare-and-swap.
CojoinWait ==
    /\ cur /= sched
    /\ pc[cur] = "cojoin"
    /\ Commit(cord_cojoin_wait(St))

\* The joiner gets control back from the fiber_yield of cord_cojoin.
CojoinResume ==
    /\ cur /= sched
    /\ pc[cur] = "cojoin_wait"
    /\ Commit(cord_cojoin_resume(St))

\* tt_pthread_join returns to the joiner once the thread has exited.
CordJoin ==
    /\ cur /= sched
    /\ pc[cur] = "cord_join"
    /\ thread.pc = "done"
    /\ Commit(cord_join(St))

\* The loop of the joiner's cord invokes the signalled async watcher.
AsyncInvoke ==
    /\ cur = sched
    /\ ctx.async_started
    /\ ctx.async_pending
    /\ Commit(cord_cojoin_wakeup(St))

\* The thread function f(arg) of the joined cord returns.
ThreadReturn ==
    /\ thread.pc = "body"
    /\ Commit([St EXCEPT !.thread.pc = "cas"])

\* The exiting thread does its compare-and-swap.
ThreadCas ==
    /\ thread.pc = "cas"
    /\ Commit(cord_thread_cas(St))

\* The exiting thread, having found a handler, calls it.
ThreadCall ==
    /\ thread.pc = "call"
    /\ Commit(cord_thread_call(St))

\* A trigger that is in no list is added to the list; its callback returns
\* zero, returns non-zero or throws, and clears itself or does not.
TriggerAdd(item, run, clears) ==
    /\ trg.next[item] = item
    /\ Commit([St EXCEPT !.trg =
                  trigger_add([trg EXCEPT !.run[item] = run,
                                          !.clears[item] = clears,
                                          !.calls = <<>>,
                                          !.ret = 0,
                                          !.returned = FALSE,
                                          !.dir = "none",
                                          !.order = <<>>], item)])

\* The list is run forward or in reverse.
TriggerRun(reverse) ==
    Commit([St EXCEPT !.trg = IF reverse THEN trigger_run_reverse(trg)
                                         ELSE trigger_run(trg)])

\* cord_start(cord, name, f, arg) is called for the next cord.
CordStart(c, f, arg) ==
    /\ cs.pc = "idle"
    /\ ~cs.returned[c] /\ \A d \in Cords : d < c => cs.returned[d]
    /\ Commit(cord_start_enter(St, c, f, arg))

\* ev_loop_new returns a loop or NULL.
CordStartLoopNew(ok) ==
    /\ cs.pc = "loop_new"
    /\ Commit(cord_start_loop_new(St, ok))

\* pthread_create succeeds or fails.
CordStartCreate(ok) ==
    /\ cs.pc = "create"
    /\ Commit(cord_start_pthread_create(St, ok))

\* One test of the wait loop.
CordStartWait ==
    /\ cs.pc = "wait"
    /\ Commit(cord_start_wait(St))

\* The condition wait ends, signalled or not.
CordStartWoken(spurious) ==
    /\ cs.pc = "blocked"
    /\ cs.start_cond \/ spurious
    /\ Commit(cord_start_woken(St))

CordStartRelock ==
    /\ cs.pc = "relock"
    /\ cs.start_mutex = "unlocked"
    /\ Commit(cord_start_relock(St))

\* cord_start cleans up and returns res.
CordStartEnd ==
    /\ cs.pc = "end"
    /\ Commit(cord_start_end(St))

\* The new thread runs cord_create.
CordThreadCreate(c) ==
    /\ cs.tpc[c] = "cord_create"
    /\ Commit(cord_thread_func_create(St, c))

\* The new thread takes start_mutex once it is free.
CordThreadLock(c) ==
    /\ cs.tpc[c] = "lock"
    /\ ct_arg_live(St, c) => cs.start_mutex = "unlocked"
    /\ Commit(cord_thread_func_lock(St, c))

\* The new thread reads the block and reports that it has started.
CordThreadStarted(c) ==
    /\ cs.tpc[c] = "read"
    /\ \E gf \in Entries, garg \in EntryArgs, hit \in BOOLEAN :
          Commit(cord_thread_func_started(St, c, gf, garg, hit))

CordThreadUnlock(c) ==
    /\ cs.tpc[c] = "unlock"
    /\ Commit(cord_thread_func_unlock(St, c))

\* The new thread calls f(arg).
CordThreadBody(c) ==
    /\ cs.tpc[c] = "body"
    /\ Commit(cord_thread_func_body(St, c))

\* update_op_do_arith is called on the field.
DoArith ==
    /\ upd.call = "arith" /\ ~upd.returned
    /\ LET r == update_op_do_arith(upd.opcode, upd.arg, upd.old) IN
       Commit([St EXCEPT !.upd = [upd EXCEPT !.returned = TRUE,
                                             !.rc = r.rc,
                                             !.err = r.err,
                                             !.arg = r.arg,
                                             !.new_field_len = r.new_field_len]])

\* A splice is decoded, applied and stored.
DoSplice(wrapped) ==
    /\ upd.call = "splice" /\ ~upd.returned
    /\ Commit([St EXCEPT !.upd = do_splice(upd, wrapped)])

\* update_read_ops is called on the operations.
ReadOps ==
    /\ upd.call = "read_ops" /\ ~upd.returned
    /\ LET r == update_read_ops(upd.ops, upd.index_base, upd.field_count_hint)
       IN Commit([St EXCEPT !.upd = [upd EXCEPT !.returned = TRUE,
                                                !.rc = r.rc,
                                                !.column_mask = r.ret]])

\* tuple_update_execute or tuple_upsert_execute is called.
Execute ==
    /\ upd.call = "execute" /\ ~upd.returned
    /\ LET r == tuple_execute(upd.mode, upd.ops, upd.record, upd.index_base,
                              upd.suppress_error, upd.oom_at)
       IN Commit([St EXCEPT !.upd =
                     [upd EXCEPT !.returned = TRUE,
                                 !.rc = r.rc,
                                 !.err = r.err,
                                 !.result = IF r.rc = 0
                                            THEN update_finish(r.root)
                                            ELSE <<>>,
                                 !.tried = r.tried,
                                 !.log = r.log]])

\* tuple_upsert_squash is called.
Squash(garbage) ==
    /\ upd.call = "squash" /\ ~upd.returned
    /\ LET r == tuple_upsert_squash(upd.left, upd.right, upd.index_base,
                                    garbage)
       IN Commit([St EXCEPT !.upd =
                     [upd EXCEPT !.returned = TRUE,
                                 !.rc = r.rc,
                                 !.result = r.ret]])

\* The operations of an update are applied to a field, and the field is
\* sized and stored.
FieldUpdate ==
    /\ upd.call = "field" /\ ~upd.returned
    /\ Commit([St EXCEPT !.upd =
                  field_finish(upd, field_do_ops(upd.ops, 1, upd.field))])

\* The state changes the reader fiber of an applier goes through: it
\* connects from OFF or after a disconnect, follows once connected, is
\* switched off once connected, is told by a master it has connected to
\* that the master is loading, and loses the connection at any time.  A
\* fiber that a trigger has cancelled goes OFF, one whose trigger has
\* raised disconnects.
ApplierMay(from, to) ==
    CASE to = APPLIER_CONNECT ->
             from \in {APPLIER_OFF, APPLIER_DISCONNECTED, APPLIER_LOADING}
      [] to = APPLIER_CONNECTED -> from = APPLIER_CONNECT
      [] to \in {APPLIER_FOLLOW, APPLIER_OFF} -> from = APPLIER_CONNECTED
      [] to = APPLIER_LOADING -> from \in {APPLIER_CONNECTED, APPLIER_FOLLOW}
      [] to \in {APPLIER_DISCONNECTED, APPLIER_STOPPED} ->
             from \in {APPLIER_CONNECT, APPLIER_CONNECTED, APPLIER_FOLLOW}
      [] OTHER -> FALSE

ApplierStates ==
    {APPLIER_CONNECT, APPLIER_CONNECTED, APPLIER_FOLLOW, APPLIER_OFF,
     APPLIER_DISCONNECTED, APPLIER_LOADING, APPLIER_STOPPED}

\* The reader fiber of an applier comes to a new state, with the UUID the
\* master has sent if it has connected; the fiber ends with OFF and
\* STOPPED unless a trigger has parked it.  At most events state changes
\* happen in one behaviour.
applier_event(r, a, state) ==
    IF state \in {APPLIER_OFF, APPLIER_STOPPED} /\ ~r.applier[a].paused
    THEN [r EXCEPT !.applier[a].reader = FALSE]
    ELSE r

ApplierEvent(a, state, uuid, events) ==
    /\ state = APPLIER_CONNECTED => uuid # uuid_nil
    /\ rs.applier[a].exists /\ rs.applier[a].reader /\ ~rs.applier[a].paused
    /\ ApplierMay(rs.applier[a].state, state)
    /\ rs.applier[a].failed = "cancelled" => state = APPLIER_OFF
    /\ rs.applier[a].failed = "raised" =>
           state \in {APPLIER_DISCONNECTED, APPLIER_LOADING, APPLIER_STOPPED}
    /\ state = APPLIER_CONNECTED \/ uuid = rs.applier[a].uuid
    /\ FreeReplicas(rs) >= 1
    /\ rs.events < events
    /\ Commit([St EXCEPT !.rs =
                  applier_event(
                      applier_set_state([rs EXCEPT !.applier[a].uuid = uuid,
                                                   !.events = @ + 1],
                                        a, state),
                      a, state)])

\* box.cfg{replication = ...} with count sources calls replicaset_connect
\* with new appliers, at most connects times in one behaviour.
connect_call(r, count, quorum) ==
    [r EXCEPT !.replication_connect_quorum = quorum,
              !.sync = NoSync,
              !.conn = [NoConnect EXCEPT
                           !.calls = r.conn.calls + 1,
                           !.appliers = FreshAppliers(r, count, 1)],
              !.applier =
                  [a \in Appliers |->
                      IF a \in Range(FreshAppliers(r, count, 1))
                      THEN [NoApplierObject EXCEPT !.exists = TRUE]
                      ELSE r.applier[a]]]

ReplConnect(count, connect_quorum, quorum, connects) ==
    /\ rs.conn.pc \in {"idle", "done"} /\ rs.sync.pc \in {"idle", "done"}
    /\ rs.conn.calls < connects
    /\ FreeAppliers(rs) >= count /\ FreeReplicas(rs) >= count
    /\ Commit([St EXCEPT !.rs =
                  replicaset_connect(connect_call(rs, count, quorum), count,
                                     connect_quorum)])

\* fiber_cond_wait_timeout of replicaset_connect returns, woken or on
\* timeout.
ReplConnectWake(expired) ==
    /\ rs.conn.pc = "wait"
    /\ expired \/ rs.conn.signalled
    /\ Commit([St EXCEPT !.rs = connect_woken(rs, expired)])

ReplConnectClear ==
    /\ rs.conn.pc = "clear"
    /\ Commit([St EXCEPT !.rs = connect_clear(rs)])

ReplConnectUpdate ==
    /\ rs.conn.pc = "update"
    /\ Commit([St EXCEPT !.rs =
                  connect_updated(replicaset_update(rs, rs.conn.appliers))])

ReplConnectError ==
    /\ rs.conn.pc = "error"
    /\ Commit([St EXCEPT !.rs = connect_error(rs)])

ReplFollow ==
    /\ rs.conn.pc = "done" /\ rs.conn.rc = 0 /\ ~rs.conn.followed
    /\ Commit([St EXCEPT !.rs = [replicaset_follow(rs) EXCEPT
                                    !.conn.followed = TRUE]])

ReplSync ==
    /\ rs.conn.pc = "done" /\ rs.conn.followed /\ rs.sync.pc = "idle"
    /\ Commit([St EXCEPT !.rs = replicaset_sync(rs)])

\* fiber_cond_wait_deadline of replicaset_sync returns, woken or at the
\* deadline.
ReplSyncWake(expired) ==
    /\ rs.sync.pc = "wait"
    /\ expired \/ rs.sync.signalled
    /\ Commit([St EXCEPT !.rs = sync_woken(rs, expired)])

InitCord ==
    /\ cur = sched
    /\ flags = [f \in AllFibers |-> IF f = sched THEN FIBER_DEFAULT_FLAGS ELSE {}]
    /\ fid = [f \in AllFibers |-> IF f = sched THEN FIBER_ID_SCHED ELSE 0]
    /\ pc = [f \in AllFibers |-> IF f = sched THEN "sched" ELSE "none"]
    /\ caller = [f \in AllFibers |-> NoFiber]
    /\ ready = <<>>
    /\ wake = [f \in Fibers |-> <<>>]
    /\ f_ret = [f \in AllFibers |-> 0]
    /\ diag = [f \in AllFibers |-> "none"]
    /\ max_fid = FIBER_ID_MAX_RESERVED
    /\ registry = <<>>
    /\ alive = {}
    /\ dead = <<>>
    /\ wakeup_event = FALSE
    /\ timer = [f \in Fibers |-> FALSE]
    /\ timed_out = [f \in Fibers |-> FALSE]
    /\ idle_event = FALSE
    /\ delay0 = [f \in Fibers |-> FALSE]
    /\ join_arg = [f \in AllFibers |-> NoFiber]
    /\ join_ret = 0
    /\ n_new = 0
    /\ pending = <<>>
    /\ chain = <<>>
    /\ noop_wakeup = NoFiber
    /\ on_exit = "NULL"
    /\ thread = [pc |-> "body", changed |-> "unset", handler_calls |-> 0]
    /\ ctx = [fiber |-> NoFiber, task_complete |-> FALSE,
              async_started |-> FALSE, async_pending |-> FALSE,
              changed |-> "unset", cancellable |-> FALSE,
              yielded |-> FALSE, joined |-> FALSE]
    /\ panicked = FALSE
    /\ stack = [f \in Fibers |-> "none"]
    /\ yt_ret = FALSE
    /\ started_by = [f \in Fibers |-> NoFiber]
    /\ first_run = [f \in Fibers |-> FALSE]
    /\ trg = [next |-> [n \in {ListHead} \cup Triggers |-> n],
              prev |-> [n \in {ListHead} \cup Triggers |-> n],
              run |-> [n \in Triggers |-> "ok"],
              clears |-> [n \in Triggers |-> FALSE],
              calls |-> <<>>, ret |-> 0, returned |-> FALSE, dir |-> "none",
              order |-> <<>>]
    /\ cs = CordStartInit
    /\ rs = replication_init

\* No call into box/update is made by the fiber runtime.
NoUpdate == [call |-> "none"]

Init ==
    /\ InitCord
    /\ upd = NoUpdate

Next ==
    \/ New(MaxAlive)
    \/ \E f \in Fibers : Start(f)
    \/ \E f \in Fibers : Wakeup(f)
    \/ \E f \in Fibers : Cancel(f)
    \/ Yield
    \/ Dispatch
    \/ \E ret \in {0, -1} : Return(ret)
    \/ \E f \in Fibers : Join(f)
    \/ JoinResume
    \/ \E zero \in BOOLEAN : Sleep(zero)
    \/ SleepResume
    \/ \E f \in Fibers : TimerFire(f)
    \/ TestCancel
    \/ \E yesno \in BOOLEAN : SetCancellable(yesno)
    \/ \E f \in Fibers, yesno \in BOOLEAN : SetJoinable(f, yesno)

Spec == Init /\ [][Next]_vars

\* The scheduling steps alone, with every fiber object in use.
NextChain ==
    \/ New(MaxFibers)
    \/ \E f \in Fibers : Start(f)
    \/ \E f \in Fibers : Wakeup(f)
    \/ Yield
    \/ Dispatch
    \/ \E ret \in {0, -1} : Return(ret)
    \/ \E f \in Fibers : Cancel(f)

SpecChain == Init /\ [][NextChain]_vars

\* fiber_join(f) by a fiber whose state link is free, so that the
\* rlist_add_tail_entry of the call links an unlinked item.
JoinFree(f) ==
    /\ fiber_is_dead(St, f) \/ ~state_linked(St, cur)
    /\ Join(f)

\* Every call the cord's fibers can make of new, start, wakeup, cancel,
\* yield, sleep and join, where fiber_start is called by any running fiber.
NextAny ==
    \/ New(MaxAlive)
    \/ \E f \in Fibers : StartWoken(f)
    \/ \E f \in Fibers : Wakeup(f)
    \/ \E f \in Fibers : Cancel(f)
    \/ Yield
    \/ Dispatch
    \/ \E ret \in {0, -1} : Return(ret)
    \/ \E f \in Fibers : JoinFree(f)
    \/ JoinResume
    \/ \E zero \in BOOLEAN : Sleep(zero)
    \/ SleepResume
    \/ \E f \in Fibers : TimerFire(f)
    \/ \E f \in Fibers, yesno \in BOOLEAN : SetJoinable(f, yesno)

SpecAny == Init /\ [][NextAny]_vars

\* The scheduling steps of fibers that wake and cancel each other.
NextLive ==
    \/ New(MaxFibers)
    \/ \E f \in Fibers : Start(f)
    \/ \E f \in Fibers : Wakeup(f)
    \/ \E f \in Fibers : Cancel(f)
    \/ Yield
    \/ Dispatch
    \/ \E ret \in {0, -1} : Return(ret)

\* A running fiber yields in the end, and every iteration of the loop
\* invokes the pending wakeup event.
SpecLive ==
    /\ Init
    /\ [][NextLive]_vars
    /\ WF_vars(Yield)
    /\ WF_vars(Dispatch)

\* The scheduling steps with joinable fibers and noted wakeups.
NextWake ==
    \/ New(MaxFibers)
    \/ \E f \in Fibers : Start(f)
    \/ \E f \in Fibers : WakeupNote(f)
    \/ Yield
    \/ Dispatch
    \/ \E ret \in {0, -1} : Return(ret)
    \/ \E f \in Fibers, yesno \in BOOLEAN : SetJoinable(f, yesno)

SpecWake == Init /\ [][NextWake]_vars

\* Fibers whose bodies loop on fiber.sleep, cancel each other and switch
\* their cancellability; the scheduler starts them and runs the loop.
NextCancel ==
    \/ New(MaxAlive)
    \/ \E f \in Fibers : Start(f)
    \/ \E f \in Fibers : Cancel(f)
    \/ \E zero \in BOOLEAN : LuaSleep(zero)
    \/ LuaSleepResume
    \/ \E f \in Fibers : TimerFire(f)
    \/ Dispatch
    \/ \E yesno \in BOOLEAN : SetCancellable(yesno)

\* A running fiber sleeps in the end and the loop dispatches the ready list;
\* nothing is assumed about the timers.
SpecCancel ==
    /\ Init
    /\ [][NextCancel]_vars
    /\ WF_vars(\E zero \in BOOLEAN : LuaSleep(zero))
    /\ WF_vars(LuaSleepResume)
    /\ WF_vars(Dispatch)

\* One cord with its fibers, and the thread of a second cord that one of the
\* fibers joins with cord_cojoin.
NextCojoin ==
    \/ New(MaxAlive)
    \/ \E f \in Fibers : Start(f)
    \/ \E f \in Fibers : WakeupAwake(f)
    \/ \E f \in Fibers : Cancel(f)
    \/ Yield
    \/ Dispatch
    \/ \E ret \in {0, -1} : Return(ret)
    \/ CojoinCas
    \/ CojoinWait
    \/ CojoinResume
    \/ CordJoin
    \/ AsyncInvoke
    \/ ThreadReturn
    \/ ThreadCas
    \/ ThreadCall

\* The operating system runs the exiting thread; a running fiber yields in
\* the end; every iteration of the loop invokes the pending watchers.
SpecCojoin ==
    /\ Init
    /\ [][NextCojoin]_vars
    /\ WF_vars(ThreadReturn)
    /\ WF_vars(ThreadCas)
    /\ WF_vars(ThreadCall)
    /\ WF_vars(Yield)
    /\ WF_vars(Dispatch)
    /\ SF_vars(AsyncInvoke)
    /\ WF_vars(CojoinWait)
    /\ WF_vars(CojoinResume)
    /\ WF_vars(CordJoin)

\* The cord and the joined thread, with fibers that wake each other through
\* the Lua library, cancel each other and switch their cancellability.
NextCojoinLua ==
    \/ New(MaxAlive)
    \/ \E f \in Fibers : Start(f)
    \/ \E f \in Fibers : LuaWakeup(f)
    \/ \E f \in Fibers : Cancel(f)
    \/ \E yesno \in BOOLEAN : SetCancellable(yesno)
    \/ Yield
    \/ Dispatch
    \/ \E ret \in {0, -1} : Return(ret)
    \/ CojoinCas
    \/ CojoinWait
    \/ CojoinResume
    \/ CordJoin
    \/ AsyncInvoke
    \/ ThreadReturn
    \/ ThreadCas
    \/ ThreadCall

SpecCojoinLua == Init /\ [][NextCojoinLua]_vars

\* The scheduling steps, with a note of who has started each fiber.
NextStart ==
    \/ New(MaxFibers)
    \/ \E f \in Fibers : StartNote(f)
    \/ \E f \in Fibers : Wakeup(f)
    \/ Yield
    \/ Dispatch
    \/ \E ret \in {0, -1} : Return(ret)

SpecStart == Init /\ [][NextStart]_vars

\* The cord driven without fiber_start: a new fiber is started by a wakeup
\* and the dispatch that follows; fibers wake and cancel each other, sleep
\* (a fiber_yield_timeout, with the idle watcher for a zero delay), join, and
\* join the thread of the other cord.
NextListed ==
    \/ New(MaxAlive)
    \/ \E f \in Fibers : WakeupAwake(f)
    \/ \E f \in Fibers : Cancel(f)
    \/ \E zero \in BOOLEAN : Sleep(zero)
    \/ SleepResume
    \/ \E f \in Fibers : TimerFire(f)
    \/ \E f \in Fibers : Join(f)
    \/ JoinResume
    \/ \E f \in Fibers, yesno \in BOOLEAN : SetJoinable(f, yesno)
    \/ CojoinCas
    \/ CojoinWait
    \/ CojoinResume
    \/ CordJoin
    \/ AsyncInvoke
    \/ ThreadReturn
    \/ ThreadCas
    \/ ThreadCall
    \/ Dispatch
    \/ \E ret \in {0, -1} : Return(ret)

SpecListed == Init /\ [][NextListed]_vars

\* Fibers that wait with a timeout, wake and cancel each other.
NextTimeout ==
    \/ New(MaxAlive)
    \/ \E f \in Fibers : Start(f)
    \/ \E f \in Fibers : Wakeup(f)
    \/ \E f \in Fibers : Cancel(f)
    \/ YieldTimeout
    \/ YieldTimeoutResume
    \/ \E f \in Fibers : TimerFire(f)
    \/ Yield
    \/ Dispatch
    \/ \E ret \in {0, -1} : Return(ret)

SpecTimeout == Init /\ [][NextTimeout]_vars

\* Fibers with default and with custom stacks, joinable or not, that run, end
\* and are joined.
NextStack ==
    \/ \E custom \in BOOLEAN : NewEx(MaxAlive, custom)
    \/ \E f \in Fibers : Start(f)
    \/ \E f \in Fibers : Wakeup(f)
    \/ Yield
    \/ Dispatch
    \/ \E ret \in {0, -1} : Return(ret)
    \/ \E f \in Fibers : Join(f)
    \/ JoinResume
    \/ \E f \in Fibers, yesno \in BOOLEAN : SetJoinable(f, yesno)

SpecStack == Init /\ [][NextStack]_vars

\* A long-lived cord: fibers are created, run and are recycled, while another
\* fiber may stay alive.
NextFid ==
    \/ NewFid
    \/ \E f \in Fibers : Start(f)
    \/ \E ret \in {0, -1} : Return(ret)

SpecFid == Init /\ [][NextFid]_vars

\* A trigger list: triggers are added, and the list is run.
NextTrigger ==
    \/ \E item \in Triggers, run \in {"ok", "fail", "throw"}, clears \in BOOLEAN :
          TriggerAdd(item, run, clears)
    \/ \E reverse \in BOOLEAN : TriggerRun(reverse)

SpecTrigger == Init /\ [][NextTrigger]_vars

\* One thread calls cord_start for one cord after the other; the threads it
\* creates run beside it.
NextCordStart ==
    \/ \E c \in Cords, f \in Entries, arg \in EntryArgs : CordStart(c, f, arg)
    \/ \E ok \in BOOLEAN : CordStartLoopNew(ok)
    \/ \E ok \in BOOLEAN : CordStartCreate(ok)
    \/ CordStartWait
    \/ \E spurious \in BOOLEAN : CordStartWoken(spurious)
    \/ CordStartRelock
    \/ CordStartEnd
    \/ \E c \in Cords : CordThreadCreate(c)
    \/ \E c \in Cords : CordThreadLock(c)
    \/ \E c \in Cords : CordThreadStarted(c)
    \/ \E c \in Cords : CordThreadUnlock(c)
    \/ \E c \in Cords : CordThreadBody(c)

SpecCordStart == Init /\ [][NextCordStart]_vars

\* One arithmetic operation is applied to one field.
InitArith ==
    /\ InitCord
    /\ upd \in ArithCalls

NextArith == DoArith

SpecArith == InitArith /\ [][NextArith]_vars

\* One splice operation is applied to one field.
InitSplice ==
    /\ InitCord
    /\ upd \in SpliceCalls

NextSplice == \E wrapped \in BOOLEAN : DoSplice(wrapped)

SpecSplice == InitSplice /\ [][NextSplice]_vars

\* The operations of one update are read.
InitMask ==
    /\ InitCord
    /\ upd \in MaskCalls

NextMask == ReadOps

SpecMask == InitMask /\ [][NextMask]_vars

\* One update or upsert is executed on a record.
InitExecute ==
    /\ InitCord
    /\ upd \in ExecCalls

NextExecute == Execute

SpecExecute == InitExecute /\ [][NextExecute]_vars

\* Two lists of upsert operations are squashed.
InitSquash ==
    /\ InitCord
    /\ upd \in SquashCalls

NextSquash == \E garbage \in GarbageArgs : Squash(garbage)

SpecSquash == InitSquash /\ [][NextSquash]_vars

\* One update of one field.
InitField ==
    /\ InitCord
    /\ upd \in FieldCalls

NextField == FieldUpdate

SpecField == InitField /\ [][NextField]_vars

\* The replica set: reconfigurations, the appliers' state changes, and the
\* synchronization that follows.
\* The steps of the replica-set control shared by its specifications.
ReplSteps ==
    \/ \E expired \in BOOLEAN : ReplConnectWake(expired)
    \/ ReplConnectClear
    \/ ReplConnectUpdate
    \/ ReplConnectError
    \/ ReplFollow
    \/ ReplSync
    \/ \E expired \in BOOLEAN : ReplSyncWake(expired)

NextRepl ==
    \/ \E count \in 0..MaxCount, connect_quorum \in BOOLEAN,
          quorum \in 0..REPLICATION_CONNECT_QUORUM_ALL :
           ReplConnect(count, connect_quorum, quorum, MaxConnects)
    \/ ReplSteps
    \/ \E a \in Appliers, state \in ApplierStates,
          uuid \in Uuids \cup {uuid_nil} :
           ApplierEvent(a, state, uuid, MaxEvents)

SpecRepl == Init /\ [][NextRepl]_vars

\* One replicaset_connect with one source more than NextRepl gives.
NextReplWide ==
    \/ \E connect_quorum \in BOOLEAN,
          quorum \in 0..REPLICATION_CONNECT_QUORUM_ALL :
           ReplConnect(MaxCount + 1, connect_quorum, quorum, 1)
    \/ ReplSteps
    \/ \E a \in Appliers, state \in ApplierStates,
          uuid \in Uuids \cup {uuid_nil} :
           ApplierEvent(a, state, uuid, MaxEvents)

SpecReplWide == Init /\ [][NextReplWide]_vars

\* One replicaset_connect with the default replication_connect_quorum,
\* followed by more state changes of its appliers than NextRepl gives.
NextReplLong ==
    \/ \E connect_quorum \in BOOLEAN :
           ReplConnect(MaxCount, connect_quorum,
                       REPLICATION_CONNECT_QUORUM_ALL, 1)
    \/ ReplSteps
    \/ \E a \in Appliers, state \in ApplierStates,
          uuid \in Uuids \cup {uuid_nil} :
           ApplierEvent(a, state, uuid, 2 * MaxEvents)

SpecReplLong == Init /\ [][NextReplLong]_vars

(* ---------------------------------------------------------------- claims *)

\* The fibers control passes through when the fibers from f on yield one
\* after the other: f, f's caller, ... up to the scheduler, which is left out.
RECURSIVE caller_path(_, _)
caller_path(f, n) ==
    IF f = sched \/ f = NoFiber \/ n = 0
    THEN <<>>
    ELSE <<f>> \o caller_path(caller[f], n - 1)

IsSuffix(q, p) ==
    /\ Len(q) <= Len(p)
    /\ \A i \in 1..Len(q) : q[i] = p[Len(p) - Len(q) + i]

NoDuplicates(q) == \A i, j \in 1..Len(q) : q[i] = q[j] => i = j

\* C1: fibers receive control in the order in which fiber_wakeup put them on
\* the ready list: whenever a fiber with an outstanding wakeup gets control,
\* it is the one whose wakeup is the oldest outstanding one.
C1_FifoWakeup ==
    [][\A f \in Fibers :
          (cur' = f /\ cur /= f /\ f \in Range(pending)) => f = Head(pending)]_vars

\* Three fibers were woken in the order a, b, c in one turn; a has control and
\* b and c follow it in the caller chain.
C1_Witness ==
    \E a, b, c \in Fibers :
        /\ a /= b /\ b /= c /\ a /= c
        /\ cur = a
        /\ caller[a] = b /\ caller[b] = c /\ caller[c] = sched
        /\ pending = <<b, c>>
        /\ chain = <<b, c>>

\* C10, the state part: while a dispatched list runs, its fibers that have not
\* run yet are the tail of the caller chain of the running fiber, in list
\* order, and the scheduler has control only when none is left.
C10_ChainInv ==
    /\ cur = sched => chain = <<>>
    /\ cur /= sched => IsSuffix(chain, caller_path(caller[cur], MaxFibers + 1))
    /\ Range(chain) \cap Range(ready) = {}

\* C10, the step part: a fiber that loses control while the chain is not empty
\* passes it to the next fiber of the chain (or back to the fiber that started
\* it); the scheduler regains control only with the chain empty; a fiber on
\* the ready list gets control only from the scheduler's dispatch; a wakeup
\* never adds a fiber to the running chain.
C10_ChainStep ==
    /\ (cur /= sched /\ cur' /= cur /\ chain /= <<>> /\ pc[cur'] /= "new")
          => \/ cur' = Head(chain)
             \/ cur' \notin Range(chain) /\ cur' /= sched /\ cur' = caller[cur]
    /\ (cur /= sched /\ cur' = sched) => chain = <<>>
    /\ \A f \in Fibers :
          (cur' = f /\ cur /= f /\ f \in Range(ready)) => cur = sched /\ wakeup_event
    /\ chain' /= chain
          => \/ chain /= <<>> /\ chain' = Tail(chain)
             \/ cur = sched /\ chain = <<>> /\ chain' = Tail(ready)

\* C10: the scheduler dispatches the ready list as a caller chain.
C10_CallerChain == []C10_ChainInv /\ [][C10_ChainStep]_vars

\* A dispatched chain is running, a fiber of it is still to run, and a fiber
\* that has run before was woken again and waits on the ready list.
C10_Witness ==
    /\ cur \in Fibers
    /\ chain /= <<>>
    /\ \E f \in Range(ready) : pc[f] = "run" /\ caller[f] = sched

\* A dead fiber still has control when it was reset: fiber_loop never clears
\* the flag of a joinable fiber, and a recycled one is parked at "dead".
HasDied(f) == FIBER_IS_DEAD \in flags[f] \/ pc[f] = "dead"

\* C7: a fiber whose body has returned never has control: not the one with the
\* DEAD flag (a joinable fiber waiting for its join), not the recycled one
\* parked in fiber_loop, whatever wakeups it had pending or gets afterwards.
C7_DeadNeverRuns ==
    /\ \A f \in Fibers : HasDied(f) => cur /= f
    /\ \A f \in Fibers : FIBER_IS_DEAD \in flags[f] => f \notin Range(ready)
    /\ cur /= sched => \A i \in 1..Len(caller_path(cur, MaxFibers + 1)) :
                          ~HasDied(caller_path(cur, MaxFibers + 1)[i])

\* A joinable fiber woke itself and returned: it lingers dead with the READY
\* flag, the list it was on is empty, and the dispatch it had asked for is over.
C7_Witness ==
    /\ cur = sched
    /\ ready = <<>>
    /\ ~wakeup_event
    /\ \E f \in Fibers :
          {FIBER_IS_DEAD, FIBER_IS_READY, FIBER_IS_JOINABLE} \subseteq flags[f]

\* The fibers that get control, in order, when the running fiber and then each
\* of them yields: the caller path of the running fiber, the scheduler included.
OnCallerPath(f) ==
    /\ cur /= sched
    /\ f /= cur
    /\ f = sched \/ f \in Range(caller_path(caller[cur], MaxFibers + 1))

JoinOf(f) == Join(f) \/ (JoinResume /\ join_arg[cur] = f)

\* C2, the step part: fiber_join(f) returns only when f has the DEAD flag, and
\* then with f's return code, with f's diagnostics moved to the joiner when the
\* code is not zero, and with f recycled; otherwise the joiner links itself to
\* f's wake list and yields.
C2_JoinStep ==
    \A f \in Fibers :
        JoinOf(f) =>
            IF FIBER_IS_DEAD \in flags[f]
            THEN /\ cur' = cur
                 /\ pc'[cur] \in {"run", "sched"}
                 /\ join_arg'[cur] = NoFiber
                 /\ join_ret' = f_ret[f]
                 /\ f_ret[f] /= 0 => diag[f] /= "none" /\ diag'[cur] = diag[f]
                 /\ f_ret[f] = 0 => diag'[cur] = diag[cur]
                 /\ diag'[f] = "none"
                 /\ fid'[f] = 0
                 /\ fid[f] \notin DOMAIN registry'
                 /\ \A k \in DOMAIN registry' : registry'[k] /= f
                 /\ f \notin alive'
                 /\ dead' = <<f>> \o dead
                 /\ flags'[f] = FIBER_DEFAULT_FLAGS
            ELSE /\ cur' /= cur
                 /\ pc'[cur] = "join"
                 /\ join_arg'[cur] = f
                 /\ cur \in Range(wake'[f])
                 /\ UNCHANGED <<fid, registry, alive, dead, f_ret, diag, join_ret>>

\* C2, the state part: a fiber waiting in fiber_join is never lost.  Its
\* target is alive or dead and unjoined; the waiter is in the target's wake
\* list or has a wakeup pending; once the target is dead the waiter has one.
C2_WaitInv ==
    \A g \in Fibers :
        (pc[g] = "join" /\ g /= cur) =>
            /\ join_arg[g] \in Fibers
            /\ Exists(join_arg[g])
            /\ g \in Range(wake[join_arg[g]]) \/ FIBER_IS_READY \in flags[g]
            /\ FIBER_IS_DEAD \in flags[join_arg[g]] => FIBER_IS_READY \in flags[g]

\* C2: fiber_join returns once, after the death of its target.
C2_Join == []C2_WaitInv /\ [][C2_JoinStep]_vars

\* A fiber that was cancelled has returned from the join of a fiber that had
\* died of a cancellation: it holds the error, and the target is in the pool.
C2_Witness ==
    /\ cur \in Fibers
    /\ pc[cur] = "run"
    /\ join_ret = -1
    /\ diag[cur] = "cancelled"
    /\ FIBER_IS_CANCELLED \in flags[cur]
    /\ dead /= <<>>
    /\ DOMAIN registry = {fid[cur]}

\* C5 as stated: fiber_cancel(f) on a live fiber sets CANCELLED and puts f on
\* the ready list iff f is cancellable and is not the caller.
C5_CancelWakesIff ==
    [][\A f \in Fibers :
          (Cancel(f) /\ FIBER_IS_DEAD \notin flags[f] /\ f \notin Range(ready))
              => /\ FIBER_IS_CANCELLED \in flags'[f]
                 /\ f \in Range(ready')
                        <=> (FIBER_IS_CANCELLABLE \in flags[f] /\ f /= cur)]_vars

\* C5, amended, the step part: fiber_cancel(f) on a live fiber sets CANCELLED;
\* it appends f to the ready list iff f is cancellable, is not the caller and
\* has no READY flag yet, feeding the wakeup event if the list was empty;
\* control, the parked position and the diagnostics of every fiber stay.
C5_CancelStep ==
    \A f \in Fibers :
        (Cancel(f) /\ FIBER_IS_DEAD \notin flags[f]) =>
            LET wakes == /\ FIBER_IS_CANCELLABLE \in flags[f]
                         /\ f /= cur
                         /\ FIBER_IS_READY \notin flags[f]
            IN  /\ flags' = [flags EXCEPT ![f] =
                        @ \cup {FIBER_IS_CANCELLED}
                          \cup (IF wakes THEN {FIBER_IS_READY} ELSE {})]
                /\ ready' = IF wakes THEN Append(ready, f) ELSE ready
                /\ wakeup_event' = (wakeup_event \/ (wakes /\ ready = <<>>))
                /\ wakes => f \notin Range(ready)
                /\ UNCHANGED <<cur, pc, caller, diag, f_ret, fid, chain>>

\* C5, the dead part: fiber_cancel on a DEAD fiber changes nothing.
C5_CancelDead ==
    \A f \in Fibers :
        (Exists(f) /\ FIBER_IS_DEAD \in flags[f]) => fiber_cancel(St, f) = St

\* C5, amended: the effect of fiber_cancel.
C5_Cancel == []C5_CancelDead /\ [][C5_CancelStep]_vars

\* A sleeping fiber has been cancelled by another fiber: it is on the ready
\* list with its timer still active, and the canceller still has control.
C5_Witness ==
    /\ cur \in Fibers
    /\ \E f \in Fibers :
          /\ f /= cur
          /\ pc[f] = "sleep"
          /\ timer[f]
          /\ {FIBER_IS_CANCELLED, FIBER_IS_READY, FIBER_IS_CANCELLABLE}
                 \subseteq flags[f]
          /\ ready = <<f>>
          /\ wakeup_event

\* C9, the step part: a fiber_wakeup on a fiber that is READY or DEAD changes
\* neither the ready list nor any flag nor the pending wakeup event, nor the
\* wake lists, the callers and the running fiber.
C9_NoopStep ==
    noop_wakeup' /= NoFiber
        => UNCHANGED <<ready, flags, wakeup_event, wake, caller, cur, chain>>

\* C9, the state part: in every state fiber_wakeup leaves a READY or DEAD
\* fiber and the cord as they are; no fiber is twice in the ready list or on
\* the caller path, and none is in both.
C9_NoopInv ==
    /\ \A f \in Fibers :
          (Exists(f) /\ flags[f] \cap {FIBER_IS_READY, FIBER_IS_DEAD} /= {})
              => fiber_wakeup(St, f) = St
    /\ NoDuplicates(ready)
    /\ NoDuplicates(caller_path(cur, MaxFibers + 2))
    /\ cur /= sched
          => Range(ready) \cap Range(caller_path(caller[cur], MaxFibers + 2)) = {}

C3_OnExitInv ==
    /\ ~(thread.changed = "yes" /\ ctx.changed = "yes")
    /\ (thread.changed /= "unset" /\ ctx.changed /= "unset")
          => (thread.changed = "yes" \/ ctx.changed = "yes")
    /\ thread.changed = "yes" => on_exit = "WONT_RUN" /\ thread.handler_calls = 0
    /\ thread.changed = "no" => ctx.changed = "yes"
    /\ ctx.changed = "yes" => on_exit = "handler"
    /\ ctx.changed = "no" => thread.changed = "yes"
    /\ thread.handler_calls <= 1
    /\ thread.pc = "done"
          => thread.handler_calls = (IF ctx.changed = "yes" THEN 1 ELSE 0)
    /\ ctx.yielded => ctx.changed = "yes"
    /\ (ctx.fiber /= NoFiber /\ pc[ctx.fiber] /= "cojoin")
          => (ctx.yielded <=> ctx.changed = "yes")

\* C3, the step part: cord->on_exit changes once.
C3_OnExitStep == on_exit /= "NULL" => on_exit' = on_exit

\* C3: cord->on_exit is change-once and decides who runs what.
C3_OnExit == []C3_OnExitInv /\ [][C3_OnExitStep]_vars

\* The thread stored WONT_RUN first: the joiner's compare-and-swap failed, it
\* did not yield, no handler was called, and the join is done.
C3_Witness ==
    /\ on_exit = "WONT_RUN"
    /\ ctx.changed = "no"
    /\ ~ctx.yielded
    /\ ctx.joined
    /\ thread.handler_calls = 0

\* C4, the step part: the joiner gets control back from the yield of
\* cord_cojoin only after the thread function has returned and the handler has
\* been called, with task_complete set (no panic).
C4_ResumeStep ==
    \A f \in Fibers :
        (pc[f] = "cojoin_wait" /\ cur /= f /\ cur' = f)
            => /\ ctx.task_complete
               /\ thread.pc = "done"
               /\ thread.handler_calls = 1

\* C4, the liveness part: a fiber that has called cord_cojoin gets through the
\* thread join.
C4_Joins == (ctx.fiber /= NoFiber) ~> ctx.joined

\* C4: cord_cojoin loses no wakeup and does not deadlock.
C4_Cojoin == C4_Joins /\ []~panicked /\ [][C4_ResumeStep]_vars

\* The joiner installed the handler and yielded while the thread function was
\* still running; it has been woken through the async watcher and has joined.
C4_Witness ==
    /\ ctx.joined
    /\ ctx.yielded
    /\ ctx.task_complete
    /\ thread.handler_calls = 1
    /\ FIBER_IS_CANCELLED \in flags[ctx.fiber]

\* C6, the step part: a cancel by another fiber gives a cancellable fiber
\* suspended in sleep the READY flag at once, its timer left as it is; and a
\* cancelled fiber that gets control back from sleep fails in the testcancel
\* that follows: its body ends with a non-zero code.
C6_CancelStep ==
    /\ \A f \in Fibers :
          (Cancel(f) /\ f /= cur /\ pc[f] = "sleep"
                     /\ FIBER_IS_CANCELLABLE \in flags[f])
              => /\ {FIBER_IS_CANCELLED, FIBER_IS_READY} \subseteq flags'[f]
                 /\ FIBER_IS_READY \notin flags[f] => ready' = Append(ready, f)
                 /\ timer'[f] = timer[f]
                 /\ timed_out'[f] = timed_out[f]
    /\ (LuaSleepResume /\ FIBER_IS_CANCELLED \in flags[cur])
          => /\ pc'[cur] = "dead"
             /\ f_ret'[cur] = -1
             /\ cur' /= cur
    /\ (LuaSleepResume /\ FIBER_IS_CANCELLED \notin flags[cur])
          => pc'[cur] = "run" /\ cur' = cur

\* C6, the liveness part: a cancelled fiber suspended in sleep that has been
\* woken ends with the cancellation, whether or not its timer ever fires.
C6_Observes ==
    \A f \in Fibers :
        (pc[f] = "sleep" /\ {FIBER_IS_CANCELLED, FIBER_IS_READY} \subseteq flags[f])
            ~> (pc[f] = "dead")

\* C6: a fiber looping on sleep and testcancel observes a cancellation.
C6_CancelLive == C6_Observes /\ [][C6_CancelStep]_vars

\* A cancelled fiber has control back from its sleep while its timer is still
\* active and has not fired.
C6_Witness ==
    /\ cur \in Fibers
    /\ pc[cur] = "sleep"
    /\ FIBER_IS_CANCELLED \in flags[cur]
    /\ timer[cur]
    /\ ~timed_out[cur]

\* C11, the state part: no two fibers that hold a fid hold the same one, and
\* the registry maps the fid of each of them to it.
C11_FidInv ==
    /\ \A f, g \in Fibers :
          (Exists(f) /\ Exists(g) /\ f /= g) => fid[f] /= fid[g]
    /\ \A f \in Fibers :
          Exists(f) => /\ fid[f] \in DOMAIN registry
                       /\ registry[fid[f]] = f
                       /\ fid[f] <= max_fid

\* C11, the step part: a fiber_new makes max_fid strictly greater and gives
\* the new value to the fiber it returns and to no other.
C11_FidStep ==
    n_new' /= n_new =>
        /\ max_fid' > max_fid
        /\ Cardinality({f \in Fibers : fid'[f] = max_fid'}) = 1

\* C11: every fiber_new assigns a fid greater than every fid assigned before
\* in the cord, so no fid is given twice and no two fibers share one.
C11_FidIncreases == []C11_FidInv /\ [][C11_FidStep]_vars

\* C12: a recycled fiber that has a default stack is in the pool and not in
\* the alive list; a recycled fiber that had a custom stack is in neither
\* list and its stack and region are released, whoever recycled it; no
\* custom-stack fiber is ever in the pool.
C12_Recycle ==
    /\ \A f \in Fibers :
          (pc[f] = "dead" /\ fid[f] = 0) =>
              IF stack[f] = "default"
              THEN f \in Range(dead) /\ f \notin alive
              ELSE stack[f] = "freed" /\ f \notin alive /\ f \notin Range(dead)
    /\ \A f \in Range(dead) : stack[f] = "default"

\* The body of the running fiber returns in this step.
BodyReturns == cur \in Fibers /\ pc[cur] = "run" /\ pc'[cur] = "dead"

\* C13, the step part: a fiber that is joinable when its body returns keeps
\* its fid and its registry entry, holds the return code and, if it is not
\* zero, the diagnostics, and has the DEAD flag; a fiber that is not joinable
\* is recycled in the same step.  A fiber with the DEAD flag keeps all of it
\* in every step that is not a fiber_join of it.
C13_LingerStep ==
    /\ BodyReturns =>
          IF FIBER_IS_JOINABLE \in flags[cur]
          THEN /\ fid'[cur] = fid[cur]
               /\ registry' = registry
               /\ FIBER_IS_DEAD \in flags'[cur]
               /\ cur \in alive'
               /\ cur \notin Range(dead')
               /\ f_ret'[cur] /= 0 => diag'[cur] /= "none"
               /\ f_ret'[cur] = 0 => diag'[cur] = "none"
          ELSE /\ fid'[cur] = 0
               /\ fid[cur] \notin DOMAIN registry'
               /\ diag'[cur] = "none"
               /\ flags'[cur] = FIBER_DEFAULT_FLAGS
    /\ \A f \in Fibers :
          (FIBER_IS_DEAD \in flags[f] /\ ~JoinOf(f))
              => /\ FIBER_IS_DEAD \in flags'[f]
                 /\ fid'[f] = fid[f]
                 /\ f_ret'[f] = f_ret[f]
                 /\ diag'[f] = diag[f]
                 /\ registry'[fid[f]] = f
                 /\ f \in alive'

\* C13, the state part: a fiber has the DEAD flag only between the return of
\* its body and its join; it is then registered under its fid and holds its
\* stack.
C13_LingerInv ==
    \A f \in Fibers :
        FIBER_IS_DEAD \in flags[f]
            => /\ pc[f] = "dead"
               /\ Exists(f)
               /\ fid[f] \in DOMAIN registry
               /\ registry[fid[f]] = f
               /\ f \in alive
               /\ stack[f] \in {"default", "custom"}

\* C13: a joinable dead fiber lingers until it is joined.
C13_Linger == []C13_LingerInv /\ [][C13_LingerStep]_vars

\* A joinable fiber with a custom stack has ended with an error and lingers,
\* while the pool holds a fiber that was not joinable.
C13_Witness ==
    /\ dead /= <<>>
    /\ \E f \in Fibers :
          /\ {FIBER_IS_DEAD, FIBER_IS_JOINABLE, FIBER_CUSTOM_STACK}
                \subseteq flags[f]
          /\ f_ret[f] = -1
          /\ diag[f] = "err"
          /\ registry[fid[f]] = f

\* C14: fiber_set_joinable on a fiber that is dead and joinable leaves it
\* joinable: a fiber with the DEAD and the JOINABLE flag keeps both until it
\* is recycled.
C14_DeadStaysJoinable ==
    [][\A f \in Fibers :
          ({FIBER_IS_DEAD, FIBER_IS_JOINABLE} \subseteq flags[f]
               /\ FIBER_IS_DEAD \in flags'[f])
              => FIBER_IS_JOINABLE \in flags'[f]]_vars

\* C15, the state part: a fiber inside the yield of cord_cojoin is not
\* cancellable, and no wrong wakeup is detected.
C15_WaitInv ==
    /\ \A f \in Fibers :
          pc[f] = "cojoin_wait" => FIBER_IS_CANCELLABLE \notin flags[f]
    /\ ~panicked

\* C15, the step part: fiber_cancel on the suspended joiner sets CANCELLED and
\* leaves the ready list and the READY flag alone; the joiner gets control
\* back only after the thread has called the handler and the watcher has set
\* task_complete; when it goes on, its CANCELLABLE flag is what it was before
\* the yield.
C15_WaitStep ==
    /\ \A f \in Fibers :
          (Cancel(f) /\ pc[f] = "cojoin_wait" /\ f /= cur)
              => /\ FIBER_IS_CANCELLED \in flags'[f]
                 /\ flags'[f] \ {FIBER_IS_CANCELLED} = flags[f] \ {FIBER_IS_CANCELLED}
                 /\ UNCHANGED <<ready, wakeup_event, cur, pc, ctx>>
    /\ \A f \in Fibers :
          (pc[f] = "cojoin_wait" /\ cur /= f /\ cur' = f)
              => /\ thread.handler_calls = 1
                 /\ ctx.task_complete
                 /\ ctx.fiber = f
    /\ \A f \in Fibers :
          (pc[f] = "cojoin" /\ pc'[f] = "cojoin_wait")
              => /\ ctx'.cancellable = (FIBER_IS_CANCELLABLE \in flags[f])
                 /\ FIBER_IS_CANCELLABLE \notin flags'[f]
                 /\ cur = f /\ cur' /= f
    /\ CojoinResume
          => /\ pc'[cur] = "cord_join"
             /\ (FIBER_IS_CANCELLABLE \in flags'[cur]) = ctx.cancellable
             /\ flags'[cur] \ {FIBER_IS_CANCELLABLE} = flags[cur] \ {FIBER_IS_CANCELLABLE}

\* C15: the joiner is not cancellable while it waits in cord_cojoin.
C15_NoCancelInYield == []C15_WaitInv /\ [][C15_WaitStep]_vars

\* A cancellable fiber waited in cord_cojoin, was cancelled meanwhile, and has
\* gone on after the handler ran: it is cancellable again and cancelled.
C15_Witness ==
    /\ cur \in Fibers
    /\ cur = ctx.fiber
    /\ pc[cur] = "cord_join"
    /\ ctx.yielded
    /\ ctx.cancellable
    /\ {FIBER_IS_CANCELLABLE, FIBER_IS_CANCELLED} \subseteq flags[cur]
    /\ thread.handler_calls = 1

\* The running fiber f gives up control in a fiber_yield (of its own, or of
\* fiber_loop after the return of its body), not in a fiber_start.
YieldsFrom(f) == cur = f /\ cur' /= f /\ pc[cur'] /= "new"

\* C16 as stated: fiber_start(f) gives control to f at once; the first yield
\* of f, or the return of its body, gives control back to the fiber that
\* called fiber_start; no later yield of f gives control to that fiber.
C16_NeverBackToStarter ==
    [][/\ \A f \in Fibers : StartNote(f) => cur' = f
       /\ \A f \in Fibers :
             (YieldsFrom(f) /\ started_by[f] \in Fibers)
                 => (cur' = started_by[f] <=> first_run[f])]_vars

\* C16, amended: fiber_start(f) gives control to f at once, with the caller
\* as f's caller; the first yield of f, or the return of its body, gives
\* control back to the fiber that called fiber_start; every yield sets f's
\* caller to the scheduler, and a later yield of f gives control to the fiber
\* the dispatch has linked after f, the scheduler if there is none.
C16_StartStep ==
    /\ \A f \in Fibers :
          StartNote(f) => /\ cur' = f
                          /\ caller'[f] = cur
                          /\ pc'[f] = "run"
                          /\ pc'[cur] = pc[cur]
    /\ \A f \in Fibers :
          YieldsFrom(f) =>
              /\ caller'[f] = sched
              /\ ~first_run'[f]
              /\ IF first_run[f]
                 THEN cur' = started_by[f] /\ chain' = chain
                 ELSE cur' = (IF chain = <<>> THEN sched ELSE Head(chain))
    /\ \A f \in Fibers :
          (cur /= cur' /\ cur' = started_by[f] /\ first_run[f]
               /\ \A g \in Fibers : first_run[g] /\ g /= f
                                         => started_by[g] /= started_by[f])
              => cur = f

\* C16, the state part: a fiber in the run that fiber_start began has the
\* fiber that called fiber_start as its caller, and that fiber waits for it:
\* it has the READY flag and is in no list.
C16_StartInv ==
    \A f \in Fibers :
        first_run[f] =>
            /\ caller[f] = started_by[f]
            /\ cur = f \/ OnCallerPath(started_by[f])
            /\ FIBER_IS_READY \in flags[started_by[f]]
            /\ started_by[f] \notin Range(ready)
            /\ started_by[f] \notin Range(chain)

\* C16, amended: fiber_start runs the fiber at once and gets control back at
\* its first yield.
C16_Start == []C16_StartInv /\ [][C16_StartStep]_vars

\* A fiber that another fiber has started and that has yielded since runs out
\* of a dispatched list in which its starter is the next fiber.
C16_Witness ==
    /\ cur \in Fibers
    /\ ~first_run[cur]
    /\ started_by[cur] \in Fibers
    /\ pc[cur] = "run"
    /\ caller[cur] = started_by[cur]
    /\ chain /= <<>>
    /\ Head(chain) = started_by[cur]

\* C18: in every state reached through wakeup, cancel, sleep, yield_timeout,
\* join, cord_cojoin and dispatch the scheduler is not linked in cord->ready
\* (nor in a wake list, nor in a dispatched chain) and does not have the READY
\* flag.
C18_SchedNeverReady ==
    /\ sched \notin Range(ready)
    /\ FIBER_IS_READY \notin flags[sched]
    /\ sched \notin Range(chain)
    /\ \A f \in Fibers : sched \notin Range(wake[f])
    /\ flags[sched] = FIBER_DEFAULT_FLAGS

\* The scheduler has control after a fiber that waits in fiber_join has run;
\* the fiber it joins was cancelled in its sleep and is on the ready list, for
\* the next dispatch.
C18_Witness ==
    /\ cur = sched
    /\ wakeup_event
    /\ \E f, g \in Fibers :
          /\ pc[g] = "join"
          /\ join_arg[g] = f
          /\ pc[f] = "sleep"
          /\ FIBER_IS_CANCELLED \in flags[f]
          /\ ready = <<f>>

\* C19: the idle watcher of the cord is active exactly when some fiber is
\* inside fiber_sleep(0).
C19_IdleWhileSleeping ==
    idle_event <=> \E f \in Fibers : pc[f] = "sleep" /\ delay0[f]

\* C20, the state part: a timer is active, and its callback has set the flag,
\* only for a fiber that is inside the call; a timer whose callback has run is
\* not active, and the fiber it has woken has a wakeup pending or has control.
C20_TimerInv ==
    \A f \in Fibers :
        /\ timer[f] => pc[f] \in {"ytimeout", "sleep"}
        /\ timed_out[f] => /\ pc[f] \in {"ytimeout", "sleep"}
                            /\ ~timer[f]
                            /\ (cur = f \/ FIBER_IS_READY \in flags[f])

\* C20, the step part: fiber_yield_timeout returns true iff its timer is no
\* longer active when the fiber gets on (the one-shot timer has fired and its
\* callback has run) and false if the timer is still active (the fiber was
\* resumed by another wakeup); the timer is not active after the return; the
\* callback runs only for a fiber that is inside the call.
C20_TimerStep ==
    /\ YieldTimeoutResume
          => /\ yt_ret' = ~timer[cur]
             /\ ~timer'[cur]
             /\ pc'[cur] = "run"
             /\ cur' = cur
    /\ \A f \in Fibers :
          TimerFire(f) => /\ pc[f] = pc'[f]
                          /\ pc[f] \in {"ytimeout", "sleep"}
                          /\ f /= cur
                          /\ FIBER_IS_READY \in flags'[f]

\* C20: fiber_yield_timeout reports whether its timer has fired, and leaves
\* no timer behind.
C20_YieldTimeout == []C20_TimerInv /\ [][C20_TimerStep]_vars

\* A fiber waiting with a timeout was cancelled and woken by another fiber;
\* its timer fired before it got control; the call has returned true.
C20_Witness ==
    /\ cur \in Fibers
    /\ pc[cur] = "run"
    /\ yt_ret
    /\ FIBER_IS_CANCELLED \in flags[cur]
    /\ ~timer[cur]
    /\ \E f \in Fibers : f /= cur /\ timer[f] /\ FIBER_IS_READY \in flags[f]

Reverse(q) == [i \in 1..Len(q) |-> q[Len(q) + 1 - i]]

\* The triggers of the list when the last run began, in the order of that run.
RunOrder == IF trg.dir = "reverse" THEN Reverse(trg.order) ELSE trg.order

\* The places in that order of the callbacks that return non-zero or throw.
Failing == {i \in 1..Len(RunOrder) : trg.run[RunOrder[i]] /= "ok"}

\* C17: trigger_run invokes the callbacks in forward list order and
\* trigger_run_reverse in reverse order, each once, up to and including the
\* first one that returns non-zero or throws; the run returns -1 if there is
\* one and 0 otherwise; callbacks that unlink their own node make no other
\* callback be skipped or repeated, and leave the other triggers linked in
\* their order.
C17_TriggerRun ==
    trg.dir /= "none" =>
        LET stop == IF Failing = {}
                    THEN Len(RunOrder)
                    ELSE CHOOSE i \in Failing : \A j \in Failing : i <= j
        IN  /\ trg.returned
            /\ trg.calls = SubSeq(RunOrder, 1, stop)
            /\ trg.ret = (IF Failing = {} THEN 0 ELSE -1)
            /\ rlist_entries(trg, trg.next[ListHead], MaxTriggers + 1)
                  = SelectSeq(trg.order,
                              LAMBDA n : ~(n \in Range(trg.calls) /\ trg.clears[n]))
            /\ \A n \in {ListHead} \cup Triggers : trg.prev[trg.next[n]] = n

\* A reverse run over three triggers: the last one of the list unlinked itself
\* and returned zero, the middle one unlinked itself and threw, and the first
\* one of the list was not invoked.
C17_Witness ==
    /\ trg.dir = "reverse"
    /\ Len(trg.order) = 3
    /\ trg.calls = <<trg.order[3], trg.order[2]>>
    /\ trg.clears[trg.order[3]] /\ trg.run[trg.order[3]] = "ok"
    /\ trg.clears[trg.order[2]] /\ trg.run[trg.order[2]] = "throw"
    /\ trg.ret = -1
    /\ rlist_entries(trg, trg.next[ListHead], MaxTriggers) = <<trg.order[1]>>

\* C21: cord_start returns 0 only after the new thread has finished
\* cord_create and has set is_started with start_mutex held; the thread reads
\* the entry function and the argument from the block on the starter's stack
\* while that block is in scope, and runs exactly what was passed; a cord_start
\* that returns -1 has failed to create the loop or the thread, leaves
\* cord->loop NULL and has destroyed the loop it created; one that returns 0
\* leaves the loop in cord->loop.
C21_CordStart ==
    \A c \in Cords :
        /\ cs.returned[c] => cs.ret[c] \in {0, -1}
        /\ (cs.returned[c] /\ cs.ret[c] = 0) =>
              /\ cs.created[c]
              /\ cs.started_locked[c]
              /\ cs.tpc[c] \in {"body", "done"}
              /\ cs.loop[c] = "loop"
        /\ cs.tpc[c] \in {"unlock", "body", "done"} =>
              /\ cs.read_live[c]
              /\ <<cs.tf[c], cs.targ[c]>> = cs.given[c]
        /\ (cs.returned[c] /\ cs.ret[c] = -1) =>
              /\ cs.tpc[c] = "none"
              /\ cs.loop[c] = "NULL"
              /\ cs.loop_new[c] => cs.loop_destroyed[c]
        /\ (ct_arg_live(St, c) /\ cs.ct_arg.is_started) => cs.created[c]

\* One cord_start has returned -1 after pthread_create failed, and a later
\* one has returned 0 before its thread has called the entry function.
C21_Witness ==
    /\ cs.returned[1] /\ cs.ret[1] = -1 /\ cs.loop_destroyed[1]
    /\ cs.returned[2] /\ cs.ret[2] = 0 /\ cs.tpc[2] = "body"
    /\ cs.given[2] = <<2, 1>>

\* The number a field holds, and the exact result of an operation on it.
FieldArg == mp_read_arith_arg(upd.old).ret

ExactResult ==
    IF upd.opcode = "+" THEN FieldArg.val + upd.given.val
                        ELSE FieldArg.val - upd.given.val

BothInt ==
    /\ upd.call = "arith" /\ upd.returned
    /\ mp_typeof(upd.old[1]) \in {"MP_UINT", "MP_INT"}
    /\ upd.given.type = AT_INT

\* C28: '+' and '-' on two integers succeed if and only if the exact result
\* lies between the least negative and the greatest unsigned integer; the
\* result then is that exact number, with the length of its encoding as the
\* new field length; otherwise the operation fails with UpdateIntegerOverflow
\* and nothing is wrapped.
C28_IntOverflow ==
    BothInt =>
        /\ upd.rc = 0 <=> (ExactResult >= INT64_MIN /\ ExactResult <= UINT64_MAX)
        /\ upd.rc = 0 =>
              /\ upd.arg = ArithArg(AT_INT, ExactResult)
              /\ upd.new_field_len = Len(store_op_arith(upd.arg))
        /\ upd.rc # 0 =>
              /\ upd.err = "UpdateIntegerOverflow"
              /\ upd.arg = upd.given

\* The greatest unsigned integer plus one has failed.
C28_Witness ==
    /\ BothInt
    /\ upd.opcode = "+" /\ FieldArg.val = UINT64_MAX /\ upd.given.val = 1
    /\ upd.rc = -1 /\ upd.err = "UpdateIntegerOverflow"

\* The place of a type in the order INT, FLOAT, DOUBLE, DECIMAL.
Expressive(type) ==
    CASE type = AT_INT -> 0
      [] type = AT_FLOAT -> 1
      [] type = AT_DOUBLE -> 2
      [] OTHER -> 3

ArithDone ==
    /\ upd.call = "arith" /\ upd.returned /\ upd.rc = 0

\* C29 as stated: the result has the less expressive of the two operand
\* types.
C29_LeastExpressive ==
    ArithDone =>
        Expressive(upd.arg.type) =
            IF Expressive(FieldArg.type) < Expressive(upd.given.type)
            THEN Expressive(FieldArg.type)
            ELSE Expressive(upd.given.type)

\* C29: the type of the result of '+' and '-' depends only on the types of
\* the field and of the argument, and it is the more expressive of the two
\* in the order INT, FLOAT, DOUBLE, DECIMAL: an integer only for two
\* integers, a decimal as soon as one of them is a decimal.
C29_MostExpressive ==
    ArithDone =>
        Expressive(upd.arg.type) =
            IF Expressive(FieldArg.type) > Expressive(upd.given.type)
            THEN Expressive(FieldArg.type)
            ELSE Expressive(upd.given.type)

\* An integer field has got a double added and holds a double.
C29_Witness ==
    /\ ArithDone
    /\ FieldArg.type = AT_INT /\ upd.given.type = AT_DOUBLE
    /\ upd.arg.type = AT_DOUBLE

\* The string a splice call is made on, and a sub-sequence that is empty
\* when its bounds are not in order.
SpliceSrc == mp_decode_str(upd.old)

Slice(q, from, to) ==
    IF from >= 1 /\ to <= Len(q) /\ from <= to + 1
    THEN SubSeq(q, from, to)
    ELSE <<>>

Clamp(x, lo, hi) == IF x < lo THEN lo ELSE IF x > hi THEN hi ELSE x

\* C30: on a string of length len, an offset beyond the end is clamped to
\* len, an offset before the start of the string (from -len-1 down) fails
\* with UpdateSplice, the cut length is clamped to [0, len - offset], and a
\* splice that succeeds stores src[..offset] ++ paste ++ src[offset+cut..],
\* whose length is the computed one.
C30_Splice ==
    (upd.call = "splice" /\ upd.returned /\ mp_typeof(upd.old[1]) = "MP_STR") =>
        LET len == Len(SpliceSrc) IN
        /\ (upd.offset >= upd.index_base /\ upd.offset - upd.index_base > len) =>
              (upd.rc = 0 /\ upd.arg.offset = len)
        /\ upd.offset <= -len - 1 =>
              (upd.rc = -1 /\ upd.err = "UpdateSplice")
        /\ upd.rc = 0 =>
              /\ upd.arg.offset >= 0 /\ upd.arg.offset <= len
              /\ upd.arg.cut_length =
                    Clamp(upd.cut_length, 0, len - upd.arg.offset)
              /\ upd.out =
                    mp_encode_str(
                        Slice(SpliceSrc, 1, upd.arg.offset) \o upd.paste
                        \o Slice(SpliceSrc,
                                 upd.arg.offset + upd.arg.cut_length + 1, len))
              /\ Len(upd.out) = upd.new_field_len

\* The bits from a field number upward, and the bit of a field number.
BitsFrom(no) == IF no < 0 THEN COLUMN_MASK_FULL
                ELSE IF no >= MaskWidth - 1 THEN {MaskWidth - 1}
                ELSE no..(MaskWidth - 1)

BitOf(no) == IF no >= MaskWidth - 1 THEN {MaskWidth - 1} ELSE {no}

\* The field number of operation i after decoding, and the effective one
\* against a running field count.
DecodedNo(i) ==
    IF upd.ops[i].field_no >= upd.index_base
    THEN upd.ops[i].field_no - upd.index_base
    ELSE upd.ops[i].field_no

EffectiveNo(i, count) ==
    IF DecodedNo(i) >= 0 THEN DecodedNo(i)
    ELSE IF upd.ops[i].opcode = "!" THEN count + DecodedNo(i) + 1
    ELSE count + DecodedNo(i)

\* Whether operation i sets a range: an insertion or a deletion does, and in
\* the claim's words (stated) an op with a negative field number does too.
Ranged(i, stated) ==
    upd.ops[i].opcode \in {"!", "#"} \/ (stated /\ upd.ops[i].field_no < 0)

\* The mask and the running field count after the first n operations: '!'
\* adds 1 to the count and '#' takes its count off.
RECURSIVE MaskAfter(_, _)
MaskAfter(n, stated) ==
    IF n = 0 THEN [mask |-> {}, count |-> upd.field_count_hint]
    ELSE LET p == MaskAfter(n - 1, stated)
             no == EffectiveNo(n, p.count)
             op == upd.ops[n]
         IN IF p.mask = COLUMN_MASK_FULL THEN p
            ELSE IF no < 0 THEN [p EXCEPT !.mask = COLUMN_MASK_FULL]
            ELSE [mask |-> p.mask \cup
                           (IF Ranged(n, stated) THEN BitsFrom(no) ELSE BitOf(no)),
                  count |-> IF op.opcode = "!" THEN p.count + 1
                            ELSE IF op.opcode = "#" THEN p.count - op.count
                            ELSE p.count]

MaskRead == upd.call = "read_ops" /\ upd.returned /\ upd.rc = 0

\* C27 as stated: an op with a negative field number, an insertion or a
\* deletion sets every bit from its effective field number upward, any
\* other op sets only the bit of its field.
C27_MaskAsStated ==
    MaskRead => upd.column_mask = MaskAfter(Len(upd.ops), TRUE).mask

\* C27: the column mask is built op by op against a running field count,
\* which '!' increases by 1 and '#' decreases by its count: an insertion or
\* a deletion sets every bit from its effective field number upward, every
\* other op sets only the bit of its effective field number, also when its
\* field number is negative; the effective number of a negative field
\* number is the running count plus that number (plus 1 for '!'), and an
\* effective number below 0 sets every bit; the last bit stands for all
\* fields from its own number on.
C27_ColumnMask ==
    MaskRead => upd.column_mask = MaskAfter(Len(upd.ops), FALSE).mask

\* On a record of three fields with index base 1, ['=', -3, x] has set bit
\* 0 only and ['!', 4, x] after it the bits from 3 upward.
C27_Witness ==
    /\ MaskRead
    /\ upd.index_base = 1 /\ upd.field_count_hint = 3
    /\ Len(upd.ops) = 2
    /\ upd.ops[1].opcode = "=" /\ upd.ops[1].field_no = -3
    /\ upd.ops[2].opcode = "!" /\ upd.ops[2].field_no = 4
    /\ upd.column_mask = {0} \cup 3..(MaskWidth - 1)

\* What operation i of the executed call does to a tree, by itself.
OpOutcome(i, root) ==
    do_op(upd.ops[i], op_field_no(upd.ops[i], upd.index_base), root,
          upd.oom_at = i)

\* The tree before operation i of the executed call, where a failed
\* operation leaves the tree as it was.
RECURSIVE TreeBefore(_)
TreeBefore(i) ==
    IF i = 1 THEN update_array_create(upd.record)
    ELSE LET r == OpOutcome(i - 1, TreeBefore(i - 1)) IN
         IF r.rc = 0 THEN r.ret ELSE TreeBefore(i - 1)

Failed(i) == OpOutcome(i, TreeBefore(i)).rc # 0

FailedClient(i) ==
    Failed(i) /\ IsClientError(OpOutcome(i, TreeBefore(i)).err)

Executed == upd.call = "execute" /\ upd.returned /\ upd.err # "NoSuchFieldNo"

\* C22: in UPDATE mode the first operation that fails at apply time aborts
\* the update, with no result and no later operation applied; in UPSERT
\* mode an operation that fails with a client error is skipped and the
\* remaining ones are applied, its failure being logged when suppress_error
\* is true; an error that is not a client error aborts the upsert.
C22_UpdateUpsert ==
    Executed =>
        LET n == Len(upd.ops)
            failing == {i \in 1..n : Failed(i)}
            fatal == {i \in 1..n : Failed(i) /\ ~FailedClient(i)}
            first(S) == CHOOSE i \in S : \A j \in S : i <= j
        IN
        /\ (upd.mode = "update" /\ failing # {}) =>
              /\ upd.rc = -1 /\ upd.result = <<>>
              /\ upd.tried = [i \in 1..first(failing) |-> i]
        /\ (upd.mode = "update" /\ failing = {}) =>
              /\ upd.rc = 0
              /\ upd.result = update_finish(TreeBefore(n + 1))
        /\ (upd.mode = "upsert" /\ fatal = {}) =>
              /\ upd.rc = 0
              /\ upd.tried = [i \in 1..n |-> i]
              /\ upd.result = update_finish(TreeBefore(n + 1))
              /\ upd.suppress_error =>
                    \A i \in 1..n : FailedClient(i) => i \in Range(upd.log)
        /\ (upd.mode = "upsert" /\ fatal # {}) =>
              /\ upd.rc = -1 /\ upd.result = <<>>
              /\ upd.tried = [i \in 1..first(fatal) |-> i]

\* The record an upsert with the list ops leaves of the record.
UpsertEffect(ops, record) ==
    LET r == tuple_execute("upsert", ops, record, upd.index_base, TRUE, 0)
    IN IF r.rc = 0 THEN update_finish(r.root) ELSE record

\* The operations of a list on field number f.
OpsOn(ops, f) == {i \in 1..Len(ops) : ops[i].field_no = f}

Arith(op) == op.opcode \in {"+", "-"}

\* Both lists carry an arithmetic operation on the field number f.
BothArith(f) ==
    /\ \E i \in OpsOn(upd.left, f) : Arith(upd.left[i])
    /\ \E j \in OpsOn(upd.right, f) : Arith(upd.right[j])

Squashed == upd.call = "squash" /\ upd.returned /\ upd.rc = 0

ExampleLeft ==
    <<UpdateOp("+", 2, ArithArg(AT_INT, 1)), UpdateOp("=", 3, StrField(1))>>

ExampleRight ==
    <<UpdateOp("-", 2, ArithArg(AT_INT, 4)), UpdateOp("=", 3, StrField(2))>>

\* C23: squashing two lists that both carry an arithmetic operation on the
\* same field yields exactly one operation for that field, and the squashed
\* list does to any record what the left list and then the right list do;
\* the lists [['+',2,1],['=',3,'x']] and [['-',2,4],['=',3,'y']] with index
\* base 1 squash to [['-',2,3],['=',3,'y']].
C23_SquashFold ==
    (Squashed /\ \E f \in 1..3 : BothArith(f)) =>
        /\ \A f \in 1..3 :
              BothArith(f) => Cardinality(OpsOn(upd.result, f)) = 1
        /\ UpsertEffect(upd.result, upd.record)
               = UpsertEffect(upd.right, UpsertEffect(upd.left, upd.record))
        /\ (upd.left = ExampleLeft /\ upd.right = ExampleRight
                /\ upd.index_base = 1) =>
              upd.result = <<UpdateOp("-", 2, ArithArg(AT_INT, 3)),
                             UpdateOp("=", 3, StrField(2))>>

\* The list holds only '=', '+' and '-', on strictly increasing field
\* numbers.
Squashable(ops) ==
    /\ \A i \in 1..Len(ops) : ops[i].opcode \in {"=", "+", "-"}
    /\ \A i \in 1..(Len(ops) - 1) : ops[i].field_no < ops[i + 1].field_no

\* The merge by field number from operation i of the left and j of the
\* right list: what each operation of the result is taken from, and whether
\* some tie is neither a left-side '=' nor of two arithmetic operations.
RECURSIVE MergePlan(_, _)
MergePlan(i, j) ==
    LET has0 == i <= Len(upd.left)
        has1 == j <= Len(upd.right)
        l == upd.left[i]
        r == upd.right[j]
        with(step, rest) ==
            [fails |-> rest.fails, plan |-> <<step>> \o rest.plan]
    IN
    IF ~has0 /\ ~has1 THEN [fails |-> FALSE, plan |-> <<>>]
    ELSE IF has0 /\ (~has1 \/ l.field_no < r.field_no)
    THEN with([from |-> "left", i |-> i, j |-> j], MergePlan(i + 1, j))
    ELSE IF has1 /\ (~has0 \/ r.field_no < l.field_no)
    THEN with([from |-> "right", i |-> i, j |-> j], MergePlan(i, j + 1))
    ELSE IF l.opcode = "="
    THEN with([from |-> "right", i |-> i, j |-> j], MergePlan(i + 1, j + 1))
    ELSE IF Arith(l) /\ Arith(r)
    THEN with([from |-> "fold", i |-> i, j |-> j], MergePlan(i + 1, j + 1))
    ELSE [fails |-> TRUE, plan |-> <<>>]

\* The fold of the planned step is an integer overflow.
FoldOverflows(step) ==
    /\ step.from = "fold"
    /\ upd.left[step.i].arg.type = AT_INT
    /\ make_arith_operation(upd.right[step.j].opcode, upd.right[step.j].arg,
                            squash_left_arith(upd.left[step.i],
                                              upd.left[step.i].arg)).rc # 0

\* The operation is what the planned step yields.
StepYields(step, op) ==
    CASE step.from = "left" -> op = upd.left[step.i]
      [] step.from = "right" -> op = upd.right[step.j]
      [] OTHER -> Arith(op) /\ op.field_no = upd.left[step.i].field_no

SquashReturned ==
    upd.call = "squash" /\ upd.returned
    /\ update_decode_ok(upd.left, upd.index_base)
    /\ update_decode_ok(upd.right, upd.index_base)

\* C24: tuple_upsert_squash returns no result whenever a list holds an
\* opcode other than '=', '+', '-' or its field numbers are not strictly
\* increasing; otherwise it merges by field number: the operation with the
\* lower field number is copied, on a tie whose left operation is '=' the
\* left operation is dropped, on a tie of two arithmetic operations the two
\* are folded, and every other tie fails.
C24_SquashMerge ==
    SquashReturned =>
        LET m == MergePlan(1, 1) IN
        IF ~Squashable(upd.left) \/ ~Squashable(upd.right) \/ m.fails
        THEN upd.rc = -1
        ELSE IF \E k \in 1..Len(m.plan) : FoldOverflows(m.plan[k])
        THEN upd.rc = -1
        ELSE /\ upd.rc = 0
             /\ Len(upd.result) = Len(m.plan)
             /\ \A k \in 1..Len(m.plan) : StepYields(m.plan[k], upd.result[k])

FieldReturned == upd.call = "field" /\ upd.returned

\* The operation alone succeeds on the unchanged field.
AppliesAlone(op) == update_op_do_field(op, NopField(upd.data)).rc = 0

\* The second operation of the call came upon the bar of the first one.
SecondOnBar ==
    /\ FieldReturned /\ Len(upd.ops) = 2
    /\ upd.ops[1].path # <<>> /\ upd.ops[2].path # <<>>
    /\ AppliesAlone(upd.ops[1]) /\ AppliesAlone(upd.ops[2])

\* C25: an operation with a JSON path on a field that holds the bar of an
\* earlier operation with a different path succeeds by branching, the field
\* becoming an array, a map or a route, and both operations take effect;
\* only two operations on the identical path fail, with a double update.
C25_BarBranch ==
    SecondOnBar =>
        IF upd.ops[1].path = upd.ops[2].path
        THEN upd.rc = -1 /\ upd.err = "UpdateField"
        ELSE /\ upd.rc = 0
             /\ upd.field.type \in {"UPDATE_ARRAY", "UPDATE_MAP",
                                    "UPDATE_ROUTE"}
             /\ upd.stored # update_field_store(
                                  update_op_do_field(upd.ops[1],
                                                     NopField(upd.data)).ret)

\* C26: for every field of the tree, unchanged, scalar or bar, the length
\* that the sizeof pass computes is the number of bytes that the store pass
\* writes.
C26_SizeAccounting ==
    (FieldReturned /\ upd.rc = 0) => upd.tuple_len = Len(upd.stored)

\* The call applied one operation with a JSON path.
OnePathOp == FieldReturned /\ Len(upd.ops) = 1 /\ upd.ops[1].path # <<>>

\* The container that the path of op names by all of its tokens but the
\* last one, looked up in the unchanged field: rc is -1 if one of these
\* tokens is missing, else ret.point is the position of the container.
TargetOf(op) ==
    update_bar_locate([op EXCEPT !.path = SubSeq(@, 1, Len(@) - 1)],
                      NopField(upd.data), 1, 1, 0)

LastToken(op) == op.path[Len(op.path)]

\* The last token of op is a key which the map at pos does not hold.
KeyMissing(op, pos) ==
    /\ upd.data[pos].t = "map" /\ LastToken(op).type = "JSON_TOKEN_STR"
    /\ tuple_field_go_to_key(upd.data, pos, LastToken(op).str).rc # 0

\* The stored map at pos holds one pair more than before, the new key with
\* the value of op among them.
PairInserted(op, pos) ==
    LET at == tuple_field_go_to_key(upd.stored, pos, LastToken(op).str) IN
    /\ upd.stored[pos].t = "map"
    /\ upd.stored[pos].v = upd.data[pos].v + 1
    /\ at.rc = 0
    /\ SubSeq(upd.stored, at.ret, at.ret + Len(op.value) - 1) = op.value

\* The stored array at pos holds the elements it had and then the value
\* of op.
Appended(op, pos) ==
    LET size == upd.data[pos].v
        old == mp_decode_hdr(upd.data, pos)
        new == mp_decode_hdr(upd.stored, pos)
        len == mp_skip(upd.data, old, size) - old
    IN /\ upd.stored[pos].t = "array"
       /\ upd.stored[pos].v = size + 1
       /\ SubSeq(upd.stored, new, new + len - 1)
              = SubSeq(upd.data, old, old + len - 1)
       /\ SubSeq(upd.stored, new + len, new + len + Len(op.value) - 1)
              = op.value

\* The operation failed with err and is still the '=' it was.
SetRefused(err) ==
    /\ upd.rc = -1 /\ upd.err = err
    /\ upd.field.op.opcode = "="

\* C31: a '=' by a JSON path whose last token is a key that the target map
\* does not hold succeeds as a '!' and the map holds one pair more; a '='
\* whose last token is the index just behind the last element of the array
\* appends; a '=' at a larger index, or with a token before the last one
\* missing, fails with NoSuchField and is not made a '!'; a '!' of a key
\* that the map holds fails with Duplicate.
C31_SetPromotion ==
    OnePathOp =>
        LET op == upd.ops[1]
            target == TargetOf(op)
            pos == target.ret.point
            last == LastToken(op)
        IN /\ (op.opcode = "=" /\ target.rc # 0) => SetRefused("NoSuchField")
           /\ (op.opcode = "=" /\ target.rc = 0 /\ KeyMissing(op, pos)) =>
                  /\ upd.rc = 0
                  /\ upd.field.op.opcode = "!"
                  /\ PairInserted(op, pos)
           /\ (/\ op.opcode = "=" /\ target.rc = 0
               /\ upd.data[pos].t = "array"
               /\ last.type = "JSON_TOKEN_NUM") =>
                  /\ last.num = upd.data[pos].v =>
                         /\ upd.rc = 0
                         /\ upd.field.op.opcode = "!"
                         /\ Appended(op, pos)
                  /\ last.num > upd.data[pos].v => SetRefused("NoSuchField")
           /\ (/\ op.opcode = "!" /\ target.rc = 0
               /\ upd.data[pos].t = "map"
               /\ last.type = "JSON_TOKEN_STR"
               /\ ~KeyMissing(op, pos)) =>
                  upd.rc = -1 /\ upd.err = "Duplicate"

\* A '=' of a missing key has inserted the pair into the map.
C31_Witness ==
    /\ OnePathOp /\ upd.ops[1].opcode = "="
    /\ TargetOf(upd.ops[1]).rc = 0
    /\ KeyMissing(upd.ops[1], TargetOf(upd.ops[1]).ret.point)
    /\ upd.rc = 0 /\ upd.field.op.opcode = "!"

\* C32: fiber.status(f), called by the fiber that has control, is "dead" for
\* every fiber whose body has returned, joinable or not, joined or not,
\* "running" for the calling fiber and "suspended" for every other fiber.
C32_Status ==
    Running =>
        /\ lbox_fiber_status(St, FALSE, 0) = "running"
        /\ \A f \in Fibers :
              Exists(f) =>
                  lbox_fiber_status(St, TRUE, fid[f]) =
                      IF FIBER_IS_DEAD \in flags[f] THEN "dead"
                      ELSE IF f = cur THEN "running"
                      ELSE "suspended"

\* The replicaset_connect call under way or the last one that returned,
\* and the number of its appliers.
ConnCount == Len(rs.conn.appliers)

\* replicaset_connect is parked in fiber_cond_wait_timeout and its
\* condition has not been signalled.
ConnParked == rs.conn.pc = "wait" /\ ~rs.conn.signalled

\* The loop that waits has been left.
ConnLeft == ConnCount > 0 /\ rs.conn.pc \in {"clear", "update", "error", "done"}

\* Every applier of the call has no reader fiber and is OFF or STOPPED.
ConnAllStopped ==
    \A k \in 1..ConnCount :
        /\ ~rs.applier[rs.conn.appliers[k]].reader
        /\ rs.applier[rs.conn.appliers[k]].state \in {APPLIER_OFF,
                                                     APPLIER_STOPPED}

NoConnectTrigger ==
    \A a \in Appliers :
        \A k \in 1..Len(rs.applier[a].on_state) :
            rs.applier[a].on_state[k][1] # "connect"

\* C34: when replicaset_connect has returned or is about to raise, no
\* on_state list holds a trigger of its frame, and no state change of an
\* applier ever runs a trigger of a frame that is gone; when the replica
\* set is updated every applier of the call is CONNECTED or stopped.
C34_TriggersCleared ==
    /\ rs.conn.triggers = "dead" => NoConnectTrigger
    /\ rs.conn.pc = "error" /\ rs.conn.i > ConnCount => NoConnectTrigger
    /\ ~rs.dangling_run
    /\ rs.conn.pc = "update" =>
           /\ NoConnectTrigger
           /\ \A k \in 1..ConnCount :
                  \/ rs.applier[rs.conn.appliers[k]].state = APPLIER_CONNECTED
                  \/ /\ ~rs.applier[rs.conn.appliers[k]].reader
                     /\ rs.applier[rs.conn.appliers[k]].state
                            \in {APPLIER_OFF, APPLIER_STOPPED}

\* replicaset_connect has returned normally with two appliers, one of
\* them stopped in the loop that clears the triggers, and an applier has
\* changed its state since.
C34_Witness ==
    /\ rs.conn.returned /\ rs.conn.rc = 0 /\ ConnCount = 2
    /\ rs.conn.was.connected = 1
    /\ \E k \in 1..ConnCount :
           rs.applier[rs.conn.appliers[k]].state
               \in {APPLIER_FOLLOW, APPLIER_CONNECT}

\* C35: a replicaset_update that finds two connected appliers with one
\* UUID raises and leaves every replica object, every applier with its
\* on_state list, and the applier counters as they were before the call:
\* nothing is applied and no replica made for the check is left.
C35_AllOrNothing ==
    [][rs.conn.pc = "update" /\ rs'.conn.update_failed =>
           /\ rs'.conn.err = "ER_CFG"
           /\ rs'.replica = rs.replica
           /\ rs'.applier = rs.applier
           /\ rs'.total = rs.total /\ rs'.connected = rs.connected
           /\ rs'.loading = rs.loading /\ rs'.synced = rs.synced
           /\ rs'.is_orphan = rs.is_orphan]_vars

Registered(x) ==
    rs.replica[x].exists
    /\ (rs.replica[x].in_hash \/ rs.replica[x].in_anon = "replicaset")

\* The number of replicas of the replica set whose applier_sync_state is
\* one of states.
InSyncState(states) ==
    Cardinality({x \in Replicas :
                    Registered(x) /\ rs.replica[x].applier_sync_state \in states})

\* C37: in every state the applier counters are the numbers of replicas
\* by applier_sync_state, none is below zero, and
\* synced <= connected <= total.
C37_Counters ==
    /\ rs.connected = InSyncState({APPLIER_CONNECTED, APPLIER_SYNC})
    /\ rs.synced = InSyncState({APPLIER_SYNC})
    /\ rs.loading = InSyncState({APPLIER_LOADING})
    /\ rs.connected >= 0 /\ rs.synced >= 0 /\ rs.loading >= 0
    /\ rs.synced <= rs.connected /\ rs.connected <= rs.total

\* C38: a fiber_wakeup that finds the ready list empty feeds the wakeup
\* event and no other step does; a dispatch is pending whenever the ready
\* list is not empty; and a fiber on the ready list gets control in the
\* end, off the list, unless its body has returned meanwhile.
C38_NoLostWakeup ==
    /\ [](ready /= <<>> => wakeup_event)
    /\ [][/\ ready = <<>> /\ ready' /= <<>> => wakeup_event'
          /\ ~wakeup_event /\ wakeup_event' => ready = <<>> /\ ready' /= <<>>]_vars
    /\ \A f \in Fibers :
           (f \in Range(ready)) ~>
               \/ cur = f /\ f \notin Range(ready)
               \/ f \notin Range(ready) /\ (fiber_is_dead(St, f) \/ fid[f] = 0)

\* Two fibers are on the ready list and the dispatch is pending.
C38_Witness ==
    /\ Len(ready) = 2 /\ wakeup_event /\ cur = sched
    /\ \A k \in 1..2 : pc[ready[k]] = "run"

\* The registry holds exactly the fibers that were created and are not
\* recycled, each under its own fid; neither the scheduler nor a pooled
\* fiber is in it.
C40_RegistryInv ==
    /\ \A id \in DOMAIN registry :
           /\ fiber_find(St, id) \in Fibers
           /\ fid[fiber_find(St, id)] = id
    /\ \A f \in Fibers : Exists(f) => fiber_find(St, fid[f]) = f
    /\ fiber_find(St, FIBER_ID_SCHED) = NoFiber
    /\ fiber_find(St, 0) = NoFiber

\* A fid that a step registers has not been issued before in the cord: it
\* is greater than every fid issued so far, so no fid that was unregistered
\* is found again.
C40_RegistryStep ==
    \A id \in DOMAIN registry' \ DOMAIN registry : id > max_fid

\* C40: fiber_find(fid) returns a fiber exactly if a fiber with that fid was
\* created in the cord and is not recycled yet, and it returns that fiber;
\* a fid that was unregistered by a recycle is never found again; the
\* scheduler and pooled fibers are never returned.
C40_Registry == []C40_RegistryInv /\ [][C40_RegistryStep]_vars

\* The step is a fiber_start of the fiber that runs after it.
StartsTarget == pc[cur'] = "new"

\* The target has the READY flag when fiber_yield or fiber_call_impl tests
\* it: it has it before the step, or the wake loop of the fiber_loop that
\* yields in this step has woken it.
ReadyAtSwitch ==
    \/ FIBER_IS_READY \in flags[cur']
    \/ /\ cur \in Fibers /\ pc'[cur] = "dead"
       /\ cur' \in Range(wake[cur])
       /\ FIBER_IS_DEAD \notin flags[cur']

\* C39: every step that gives control to another fiber gives it to the
\* scheduler, to the fiber a fiber_start starts, or to a fiber that has the
\* READY flag; the target has a fid and a function, is not dead, and its
\* state link is in no list when it gets control.
C39_Switch ==
    [][cur' /= cur =>
          /\ cur' = sched \/ StartsTarget \/ ReadyAtSwitch
          /\ cur' /= sched =>
                 /\ fid[cur'] /= 0
                 /\ FIBER_IS_DEAD \notin flags[cur']
          /\ cur' \notin Range(ready')
          /\ \A g \in Fibers : cur' \notin Range(wake'[g])]_vars

====
